---- MODULE Spec2Model ----
(***************************************************************************)
(* Branch/thread graph engine of the ideation session                      *)
(* (src/src/graphs/ideation_graph.py).                                     *)
(*                                                                         *)
(* The session state is the IdeationState dictionary.  One action models   *)
(* one handler of the workflow; the completion collaborator's reply and    *)
(* the user's command are the inputs of the actions.                       *)
(*                                                                         *)
(* Identifiers: the branch id "b<n>" is the number n (0 stands for None);  *)
(* the thread id "thread_<i>" is <<"thread", i>> and                       *)
(* "thread_combined_<n>" is <<"thread_combined", n>>.                      *)
(* A dict is a function; an insertion-ordered dict whose order is read     *)
(* (state["threads"]) is a sequence of records keyed by their id field.    *)
(* The mindmap, a tree of nested dicts, is the function from the id of     *)
(* each node present in the tree to the ids of its children in order.      *)
(* Display-only fields (content, raw_idea, userProfile, name, description, *)
(* exploration_data, the main message history) are left out; a thread's    *)
(* transcript is its length, counted up to MaxMessages.                    *)
(***************************************************************************)
EXTENDS Integers, Sequences, FiniteSets, TLC

VARIABLES
    current_step,                   \* state["current_step"]
    final_problem_statement,        \* state["final_problem_statement"]
    threads,                        \* state["threads"], in insertion order
    branches,                       \* state["branches"]
    branch_counter,                 \* state["branch_counter"]
    active_thread,                  \* state["active_thread"]
    active_branch,                  \* state["active_branch"]
    mindmap,                        \* state["mindmap"]
    awaiting_concept_input,         \* state["awaiting_concept_input"]
    concept_expansion_context,      \* state["concept_expansion_context"]
    awaiting_idea_input,            \* state["awaiting_idea_input"]
    idea_input_context,             \* state["idea_input_context"]
    awaiting_deletion_confirmation, \* state["awaiting_deletion_confirmation"]
    deletion_context,               \* state["deletion_context"]
    switch_thread,                  \* state["switch_thread"]
    feedback,                       \* state["feedback"]
    cli,                            \* position of run_cli_workflow in its loop
    llm_called,                     \* whether the command being handled invoked the collaborator
    issued,                         \* history: every branch id handed out, in order
    removed,                        \* history: the ids the deletion being handled removed
    probe,                          \* a record handed to a normalizer, and what came back
    mindmap_name,                   \* state["mindmap"]["name"], the name of the root
    scraper                         \* the YCBulkScraper, its queue and its threads

vars == <<current_step, final_problem_statement, threads, branches,
          branch_counter, active_thread, active_branch, mindmap,
          awaiting_concept_input, concept_expansion_context,
          awaiting_idea_input, idea_input_context,
          awaiting_deletion_confirmation, deletion_context,
          switch_thread, feedback, cli, llm_called, issued, removed, probe,
          mindmap_name, scraper>>

(***************************************************************************)
(* Bounds                                                                  *)
(***************************************************************************)
MaxCounter == 3
MaxMessages == 2

(***************************************************************************)
(* Identifiers                                                             *)
(***************************************************************************)
None == 0
NoThread == <<"none", 0>>
Root == <<"root", 0>>
FixedThread(i) == <<"thread", i>>
CombinedThread(n) == <<"thread_combined", n>>
IsCombined(t) == t[1] = "thread_combined"
BNode(n) == <<"b", n>>
EmptyDict == [x \in {} |-> 0]

Range(s) == {s[i] : i \in DOMAIN s}
SelectSeqNe(s, x) == SelectSeq(s, LAMBDA y : y # x)

(***************************************************************************)
(* state["threads"]: ordered dict of thread records                        *)
(***************************************************************************)
ThreadIds(ths) == {ths[i].id : i \in DOMAIN ths}
ThreadIdx(ths, t) == CHOOSE i \in DOMAIN ths : ths[i].id = t
GetThread(ths, t) == ths[ThreadIdx(ths, t)]
SetThread(ths, rec) ==
    IF rec.id \in ThreadIds(ths)
    THEN [ths EXCEPT ![ThreadIdx(ths, rec.id)] = rec]
    ELSE Append(ths, rec)

\* a transcript length, counted up to MaxMessages
Counted(n) == IF n < MaxMessages THEN n ELSE MaxMessages

\* thread["messages"].append(...)
AddMessage(th) == [th EXCEPT !.messages = Counted(@ + 1)]

(***************************************************************************)
(* state["mindmap"]                                                        *)
(***************************************************************************)
RECURSIVE MMSubtree(_, _)
MMSubtree(mm, n) ==
    IF n \notin DOMAIN mm THEN {}
    ELSE {n} \cup UNION {MMSubtree(mm, mm[n][i]) : i \in DOMAIN mm[n]}

\* parent_node["children"].append(node): a new leaf under parent
MMAppend(mm, parent, node) ==
    [n \in (DOMAIN mm) \cup {node} |->
        IF n = parent THEN Append(mm[parent], node)
        ELSE IF n = node THEN <<>>
        ELSE mm[n]]

\* parent_node["children"] = [c for c in children if c["id"] != node]
MMRemoveChild(mm, parent, node) ==
    IF node \in Range(mm[parent])
    THEN [n \in (DOMAIN mm) \ MMSubtree(mm, node) |->
            IF n = parent THEN SelectSeqNe(mm[parent], node) ELSE mm[n]]
    ELSE mm

\* variant: the node keeps its children
MMKeepChildren(mm, node) == mm

\* thread_node["children"] = []
MMClearChildren(mm, node) ==
    [n \in (DOMAIN mm) \ (MMSubtree(mm, node) \ {node}) |->
        IF n = node THEN <<>> ELSE mm[n]]

\* next((node for node in state["mindmap"]["children"] if node["id"] == t), None)
HasThreadNode(mm, t) == Root \in DOMAIN mm /\ t \in Range(mm[Root])

(***************************************************************************)
(* JSON values.  A text is a sequence of tokens, so that the separator     *)
(* phrases of the normalizer can be searched and split on; a JSON value    *)
(* that is not a string is JNumber, one that is not a list is NotAList.    *)
(* A JSON object (Python dict) is a function from its keys.                *)
(***************************************************************************)
JNumber == <<"<number>">>
NotAList == <<JNumber>>
IsStr(v) == v # JNumber
IsList(v) == v # NotAList
Has(d, k) == k \in DOMAIN d
Opt(cond, k, v) == IF cond THEN k :> v ELSE EmptyDict
\* dict.get(k, default)
Get(d, k, default) == IF Has(d, k) THEN d[k] ELSE default
\* Python truthiness of a text or list
Truthy(v) == v # <<>>

\* pattern in content
TokIn(tok, text) == \E i \in DOMAIN text : text[i] = tok
FirstIdx(tok, text) == CHOOSE i \in DOMAIN text :
                          text[i] = tok /\ \A j \in 1..(i - 1) : text[j] # tok
\* content.split(pattern, 1), each part stripped
SplitBefore(tok, text) == SubSeq(text, 1, FirstIdx(tok, text) - 1)
SplitAfter(tok, text) == SubSeq(text, FirstIdx(tok, text) + 1, Len(text))

product_dir_patterns == <<"Product direction:", "Product Direction:",
                          "Product direction", "Product Direction">>
\* for pattern in product_dir_patterns: if pattern in content: ... break
FoundPatterns(content) ==
    {i \in DOMAIN product_dir_patterns : TokIn(product_dir_patterns[i], content)}
FirstPattern(content) ==
    product_dir_patterns[CHOOSE i \in FoundPatterns(content) :
                            \A j \in FoundPatterns(content) : i <= j]

(***************************************************************************)
(* Category Normalizer                                                     *)
(***************************************************************************)
\* the statements of standardize_concept_branch_data that raise
StdConceptRaises(d) ==
    LET byContent == ~Has(d, "explanation") /\ Has(d, "content") /\ IsStr(d.content)
        explanation == IF Has(d, "explanation") THEN d.explanation
                       ELSE IF byContent THEN d.content ELSE <<>>
        productDirection ==
            IF Has(d, "productDirection") THEN d.productDirection
            ELSE IF byContent /\ FoundPatterns(d.content) # {}
                 THEN SplitAfter(FirstPattern(d.content), d.content) ELSE <<>>
    IN  \/ /\ Get(d, "source", <<>>) = <<"imaginaryFeedback">>
           /\ ~Has(d, "userProfile")
           /\ Has(d, "content") /\ ~IsStr(d.content)    \* "User:" in <number>
        \/ /\ ~IsStr(explanation)                       \* <number> += " Product Direction: ..."
           /\ Truthy(productDirection)

\* variant: the content field is read before the explanation field
ExplanationFromContent(d) ==
    IF Has(d, "content") /\ IsStr(d.content)
    THEN IF FoundPatterns(d.content) # {}
         THEN SplitBefore(FirstPattern(d.content), d.content) ELSE d.content
    ELSE Get(d, "explanation", <<>>)

\* standardized["explanation"]
ConceptExplanation(d) ==
    IF Has(d, "explanation") THEN d.explanation
    ELSE IF Has(d, "content") /\ IsStr(d.content)
    THEN IF FoundPatterns(d.content) # {}
         THEN SplitBefore(FirstPattern(d.content), d.content) ELSE d.content
    ELSE <<>>

standardize_concept_branch_data(d) ==
    LET byContent == ~Has(d, "explanation") /\ Has(d, "content") /\ IsStr(d.content)
        found == byContent /\ FoundPatterns(d.content) # {}
        explanation == ConceptExplanation(d)
        productDirection ==
            IF Has(d, "productDirection") THEN d.productDirection
            ELSE IF found THEN SplitAfter(FirstPattern(d.content), d.content)
            ELSE <<>>
        wantsProfile == Get(d, "source", <<>>) = <<"imaginaryFeedback">>
                        \/ Has(d, "userProfile")
        userProfile ==
            IF Has(d, "userProfile") THEN d.userProfile
            ELSE IF Has(d, "content") /\ TokIn("User:", d.content)
                 THEN <<d.content[FirstIdx("User:", d.content) + 1]>>
            ELSE <<>>
        body == explanation \o
                (IF Truthy(productDirection)
                 THEN <<"Product Direction:">> \o productDirection ELSE <<>>)
        content == IF wantsProfile /\ Truthy(userProfile)
                   THEN <<"User:">> \o userProfile \o <<"Feedback:">> \o body
                   ELSE body
        kept == {"source", "source_idx", "id", "thread_id", "parent_branch",
                 "children", "expanded", "expansion_data"} \cap DOMAIN d
    IN  [heading |-> Get(d, "heading", <<"Untitled Concept">>),
         explanation |-> explanation,
         productDirection |-> productDirection,
         category |-> "concept",
         content |-> content]
        @@ Opt(wantsProfile, "userProfile", userProfile)
        @@ [k \in kept |-> d[k]]

standardize_product_branch_data(d) ==
    LET description ==
            IF Has(d, "description") THEN d.description
            ELSE IF Has(d, "explanation") THEN d.explanation
            ELSE Get(d, "content", <<"No description available.">>)
        found ==
            IF Has(d, "featureLists") /\ IsList(d.featureLists) THEN d.featureLists
            ELSE IF Has(d, "features") /\ IsList(d.features) THEN d.features
            ELSE <<>>
        features == IF found = <<>> THEN <<<<"No specific features provided">>>>
                    ELSE found
        sourceConcepts ==
            IF Has(d, "sourceConcepts") THEN d.sourceConcepts
            ELSE IF Has(d, "source_concepts") THEN d.source_concepts
            ELSE <<>>
    IN  [heading |-> Get(d, "heading", <<"Untitled Product">>),
         description |-> description,
         features |-> features,
         sourceConcepts |-> sourceConcepts,
         category |-> "product"]

(***************************************************************************)
(* Replies of the completion collaborator.  A reply has a shape (what the  *)
(* text around the JSON looks like) and the JSON value it carries.         *)
(***************************************************************************)
\* The text of a reply, as the tokens the parsers tell apart: the JSON
\* document, the code fence lines around it, and words that are not JSON.
Text(shape) ==
    IF shape = "pure" THEN <<"<json>">>
    ELSE IF shape = "fenced" THEN <<"<fence json>", "<newline>", "<json>", "<fence>">>
    ELSE IF shape = "embedded" THEN <<"<words>", "<json>", "<words>">>
    ELSE <<"<words>">>

IsFence(tok) == tok \in {"<fence json>", "<fence>"}

\* json.loads(text) returns
JsonLoads(text) == text = <<"<json>">>

\* re.search of a brace or bracket span in the text finds one that parses
HasJsonSpan(text) == TokIn("<json>", text)

\* content[first_newline:].strip()
AfterFirstNewline(text) == SplitAfter("<newline>", text)

strip_markdown_code_blocks(text) ==
    IF text = <<>> \/ ~IsFence(Head(text)) THEN text
    ELSE IF text[Len(text)] = "<fence>"
    THEN IF TokIn("<newline>", text)
         THEN LET rest == AfterFirstNewline(text)
              IN  IF rest # <<>> /\ rest[Len(rest)] = "<fence>"
                  THEN SubSeq(rest, 1, Len(rest) - 1) ELSE rest
         ELSE text
    ELSE IF TokIn("<newline>", text) THEN AfterFirstNewline(text)
    ELSE text

\* json.loads(response) or, failing that, the first {...} / [...] span
ParsesWithRegex(shape) == JsonLoads(Text(shape)) \/ HasJsonSpan(Text(shape))
\* variant: a parser that takes any text for JSON
AcceptsAnyText(shape) == TRUE

\* json.loads(strip_markdown_code_blocks(response))
ParsesStripped(shape) == JsonLoads(strip_markdown_code_blocks(Text(shape)))

ItemFull == [heading |-> <<"H">>, explanation |-> <<"E">>, productDirection |-> <<"P">>]
ItemNoHeading == [explanation |-> <<"E">>]
NonRecord == [nonrecord |-> TRUE]
IsRecord(x) == ~Has(x, "nonrecord")

Reply(shape, kind, sections, items) ==
    [shape |-> shape, kind |-> kind, sections |-> sections, items |-> items]
Section(key, items) == [key |-> key, items |-> items]

(***************************************************************************)
(* The part of the session state the branch operations work on             *)
(***************************************************************************)
Cur == [branches |-> branches, threads |-> threads, mindmap |-> mindmap,
        branch_counter |-> branch_counter, active_branch |-> active_branch,
        issued |-> issued]

Store(s) ==
    /\ branches' = s.branches
    /\ threads' = s.threads
    /\ mindmap' = s.mindmap
    /\ branch_counter' = s.branch_counter
    /\ active_branch' = s.active_branch
    /\ issued' = s.issued

\* variant: the id numbered from the size of the registry
IdFromRegistrySize(s) == Cardinality(DOMAIN s.branches) + 1

\* branch_id = f"b{state['branch_counter'] + 1}"
NextBranchId(s) == s.branch_counter + 1

\* state['branch_counter'] += 1, with the id that was formed from it
TakeId(s) == [s EXCEPT !.branch_counter = @ + 1,
                       !.issued = Append(@, NextBranchId(s))]

\* state["branches"][id] = rec
PutBranch(bs, id, rec) ==
    [n \in (DOMAIN bs) \cup {id} |-> IF n = id THEN rec ELSE bs[n]]

\* variant: the registry keeps the branches
KeepBranches(bs, ids) == bs

\* del state["branches"][id] for each of the ids
DelBranches(bs, ids) == [n \in (DOMAIN bs) \ ids |-> bs[n]]

ConceptBranch(id, thread_id, c, source, parent) ==
    [id |-> id, thread_id |-> thread_id, heading |-> c.heading,
     explanation |-> c.explanation, productDirection |-> c.productDirection,
     source |-> source, parent_branch |-> parent, children |-> <<>>,
     expanded |-> FALSE, expansion_data |-> "None", category |-> "concept"]

(***************************************************************************)
(* Session start                                                           *)
(***************************************************************************)
\* no record has been handed to a normalizer
NoProbe == [stage |-> "none"]

\* no state["mindmap"] has been set up yet
NoMindmap == "no mindmap"

(***************************************************************************)
(* YCBulkScraper (scrapers/yc_scraper.py): the threads and the locks        *)
(***************************************************************************)
NumThreads == 2
CHECKPOINT_INTERVAL == 50

Workers == 1..NumThreads
Worker(i) == <<"worker", i>>
MainThread == <<"main", 0>>
\* a threading.Lock that no thread holds
Unlocked == <<"free", 0>>

\* YCBulkScraper.__init__, with the URLs that were collected and the URLs
\* whose scrape_detail raises after its retries
YCBulkScraper(urls, failing) ==
    [company_urls |-> urls, failing |-> failing,
     processed_urls |-> {}, progress |-> 0,
     checkpoint_lock |-> Unlocked, file_lock |-> Unlocked,
     q |-> <<>>, unfinished_tasks |-> 0, task_done |-> EmptyDict,
     pc |-> [i \in Workers |-> "not started"],
     url |-> [i \in Workers |-> None],
     main |-> "scrape_all"]

Init ==
    /\ current_step = "initial_input"
    /\ final_problem_statement = ""
    /\ threads = <<>>
    /\ branches = EmptyDict
    /\ branch_counter = 0
    /\ active_thread = NoThread
    /\ active_branch = None
    /\ mindmap = EmptyDict
    /\ awaiting_concept_input = FALSE
    /\ concept_expansion_context = None
    /\ awaiting_idea_input = FALSE
    /\ idea_input_context = None
    /\ awaiting_deletion_confirmation = FALSE
    /\ deletion_context = [branch_id |-> None, branch_heading |-> <<>>,
                           children_count |-> 0]
    /\ switch_thread = FALSE
    /\ feedback = ""
    /\ cli = "generate"
    /\ llm_called = FALSE
    /\ issued = <<>>
    /\ removed = {}
    /\ probe = NoProbe
    /\ mindmap_name = NoMindmap
    /\ scraper = YCBulkScraper(<<>>, {})

graph == <<threads, branches, branch_counter, mindmap, issued>>
active == <<active_thread, active_branch>>
pending == <<awaiting_concept_input, concept_expansion_context,
             awaiting_idea_input, idea_input_context,
             awaiting_deletion_confirmation, deletion_context>>

\* request_input on the first pass, then generate_problem_statement and
\* generate_problem_statement_2 as the statement loop of run_cli_workflow
\* calls them.  ok1: the first generation succeeds; out2: the second one is
\* skipped (statement 2 is already there and was not asked for again),
\* succeeds or fails.
Outcomes2 == {"skipped", "ok", "failed"}
GenerateStatements(ok1, out2) ==
    LET runs1 == current_step \in {"initial_input", "generate_problem_statement"}
        must2 == current_step \in {"initial_input", "generate_problem_statement_2"}
        step1 == IF runs1 /\ ok1 THEN "generate_problem_statement_2"
                 ELSE current_step
    IN  /\ cli = "generate"
        /\ UNCHANGED <<probe, mindmap_name, scraper>>
        /\ must2 => out2 # "skipped"
        /\ removed' = {}
        /\ current_step' = (IF out2 = "ok" THEN "request_choice" ELSE step1)
        /\ cli' = "choose_statement"
        /\ llm_called' = TRUE
        /\ UNCHANGED <<final_problem_statement, graph, active, pending,
                       switch_thread, feedback>>

\* variant: a regenerate request also settles the statement
FinalAlwaysSet(current, choice) ==
    IF choice = "2" THEN "statement 2" ELSE "statement 1"

\* state["final_problem_statement"] after process_user_choice: r1 and r2
\* return before it is assigned
FinalAfterChoice(current, choice) ==
    IF choice \in {"r1", "r2"} THEN current
    ELSE IF choice = "2" THEN "statement 2" ELSE "statement 1"

\* process_user_choice, driven by the statement loop of run_cli_workflow
ProcessUserChoice(choice) ==
    /\ cli = "choose_statement"
    /\ UNCHANGED <<probe, mindmap_name, scraper>>
    /\ removed' = {}
    /\ llm_called' = FALSE
    /\ final_problem_statement' = FinalAfterChoice(final_problem_statement, choice)
    /\ IF choice = "r1"
       THEN /\ current_step' = "generate_problem_statement"
            /\ cli' = "generate"
            /\ UNCHANGED feedback
       ELSE IF choice = "r2"
       THEN /\ current_step' = "generate_problem_statement_2"
            /\ cli' = "generate"
            /\ UNCHANGED feedback
       ELSE /\ feedback' = (IF choice \in {"1", "2"} THEN feedback
                            ELSE "Unclear choice. Defaulting to statement 1.")
            /\ current_step' = "present_exploration_options"
            /\ cli' = "present"
    /\ UNCHANGED <<graph, active, pending, switch_thread>>

FixedThreadRecord(i) == [id |-> FixedThread(i), messages |-> 1, branches |-> {}]

\* present_exploration_options
\* variant: the threads are set up at every call
EveryTime(ths) == TRUE

\* if not state["threads"]
FirstTime(ths) == ths = <<>>

present_exploration_options ==
    /\ UNCHANGED <<probe, scraper>>
    /\ removed' = {}
    /\ mindmap_name' = (IF FirstTime(threads) THEN final_problem_statement
                        ELSE mindmap_name)
    /\ IF FirstTime(threads)
       THEN /\ threads' = [i \in 1..3 |-> FixedThreadRecord(i)]
            /\ mindmap' = [n \in {Root} \cup {FixedThread(i) : i \in 1..3} |->
                              IF n = Root THEN [i \in 1..3 |-> FixedThread(i)]
                              ELSE <<>>]
       ELSE UNCHANGED <<threads, mindmap>>
    /\ current_step' = "await_thread_choice"
    /\ llm_called' = FALSE
    /\ UNCHANGED <<final_problem_statement, branches, branch_counter, issued,
                   active, pending, switch_thread, feedback>>

\* state = present_exploration_options(state), before the exploration loop
PresentExplorationOptions ==
    /\ cli = "present"
    /\ cli' = "top"
    /\ present_exploration_options

(***************************************************************************)
(* Thread selection                                                        *)
(***************************************************************************)
\* get_thread_options_display: the listed threads with their indices
FixedOptions(ths) ==
    LET present(i) == FixedThread(i) \in ThreadIds(ths)
        ids == SelectSeq(<<1, 2, 3>>, present)
    IN  [k \in DOMAIN ids |-> [index |-> ids[k], id |-> FixedThread(ids[k])]]

\* variant: the combined threads are listed newest first
CombinedNewestFirst(ths, first) ==
    LET comb == SelectSeq(ths, LAMBDA th : IsCombined(th.id))
        n == Len(comb)
    IN  [k \in DOMAIN comb |-> [index |-> first + k - 1, id |-> comb[n + 1 - k].id]]

CombinedOptions(ths, first) ==
    LET comb == SelectSeq(ths, LAMBDA th : IsCombined(th.id))
    IN  [k \in DOMAIN comb |-> [index |-> first + k - 1, id |-> comb[k].id]]

get_thread_options_display(ths) ==
    LET fixed == FixedOptions(ths)
    IN  fixed \o CombinedOptions(ths, Len(fixed) + 1)

\* next((opt for opt in thread_options if opt["index"] == selected_index), None)
OptionsAt(ths, n) ==
    SelectSeq(get_thread_options_display(ths), LAMBDA opt : opt.index = n)

\* variant: only the top-level branches of the thread
TopLevelOfThread(bs, t) ==
    {n \in DOMAIN bs : bs[n].thread_id = t /\ bs[n].parent_branch = None}

\* branches_to_remove: every registered branch whose thread_id is the thread
BranchesOfThread(bs, t) == {n \in DOMAIN bs : bs[n].thread_id = t}

\* variant: the whole registry is emptied, not only the thread's branches
ResetRegistry(s, t) ==
    LET th == GetThread(s.threads, t)
    IN  [s EXCEPT
            !.branches = EmptyDict,
            !.threads = SetThread(s.threads,
                           AddMessage([th EXCEPT !.branches = {}])),
            !.mindmap = IF HasThreadNode(s.mindmap, t)
                        THEN MMClearChildren(s.mindmap, t) ELSE s.mindmap]

\* the branches of the thread are dropped from the registry, the thread map
\* and the thread's mindmap node; one message is added to the transcript
ResetThread(s, t) ==
    LET th == GetThread(s.threads, t)
        gone == BranchesOfThread(s.branches, t)
    IN  [s EXCEPT
            !.branches = DelBranches(s.branches, gone),
            !.threads = SetThread(s.threads,
                           AddMessage([th EXCEPT !.branches = {}])),
            !.mindmap = IF HasThreadNode(s.mindmap, t)
                        THEN MMClearChildren(s.mindmap, t) ELSE s.mindmap]

\* a first selection of a methodology thread adds the user's message
FirstSelection(s, t) ==
    LET th == GetThread(s.threads, t)
    IN  IF ~IsCombined(t) /\ th.messages <= 1
        THEN [s EXCEPT !.threads = SetThread(s.threads, AddMessage(th))]
        ELSE s

\* variant: every thread that was explored counts as selected again
ExploredBefore(ths, current, t) == GetThread(ths, t).messages > 1

\* is_reselection: the thread is the active one and its transcript has more
\* than its first message
is_reselection(ths, current, t) == t = current /\ GetThread(ths, t).messages > 1

SelectThread(t) ==
    LET s1 == IF is_reselection(threads, active_thread, t) /\ ~IsCombined(t)
              THEN ResetThread(Cur, t) ELSE Cur
        s2 == [FirstSelection(s1, t) EXCEPT !.active_branch = None]
    IN  /\ Store(s2)
        /\ active_thread' = t
        /\ current_step' = (IF IsCombined(t) THEN "present_exploration_options"
                            ELSE "thread_exploration")
        /\ cli' = (IF IsCombined(t) THEN "top" ELSE "explore")
        /\ switch_thread' = FALSE
        /\ UNCHANGED feedback

(***************************************************************************)
(* Command texts: a text is the sequence of its characters                 *)
(***************************************************************************)
UpperLetters == <<"A", "B", "C", "D", "E", "F", "G", "H", "I", "J", "K", "L", "M",
                  "N", "O", "P", "Q", "R", "S", "T", "U", "V", "W", "X", "Y", "Z">>
LowerLetters == <<"a", "b", "c", "d", "e", "f", "g", "h", "i", "j", "k", "l", "m",
                  "n", "o", "p", "q", "r", "s", "t", "u", "v", "w", "x", "y", "z">>
DigitChars == <<"0", "1", "2", "3", "4", "5", "6", "7", "8", "9">>
Digits == Range(DigitChars)
Whitespace == {" "}

\* str.lower
lower(text) ==
    [i \in DOMAIN text |->
        IF \E k \in DOMAIN UpperLetters : UpperLetters[k] = text[i]
        THEN LowerLetters[CHOOSE k \in DOMAIN UpperLetters : UpperLetters[k] = text[i]]
        ELSE text[i]]

\* str.strip
RECURSIVE lstrip(_), rstrip(_)
lstrip(text) ==
    IF text # <<>> /\ Head(text) \in Whitespace THEN lstrip(Tail(text)) ELSE text
rstrip(text) ==
    IF text # <<>> /\ text[Len(text)] \in Whitespace
    THEN rstrip(SubSeq(text, 1, Len(text) - 1)) ELSE text
strip(text) == rstrip(lstrip(text))

\* str.startswith
startswith(text, prefix) ==
    Len(prefix) <= Len(text) /\ SubSeq(text, 1, Len(prefix)) = prefix

\* the part occurs in the text at position i
OccursAt(part, text, i) ==
    i + Len(part) - 1 <= Len(text) /\ SubSeq(text, i, i + Len(part) - 1) = part

\* part in text
In(part, text) == \E i \in 1..(Len(text) + 1) : OccursAt(part, text, i)

\* the position after the longest run of characters of the set that starts at i
RECURSIVE RunEnd(_, _, _)
RunEnd(text, i, set) ==
    IF i <= Len(text) /\ text[i] \in set THEN RunEnd(text, i + 1, set) ELSE i

\* the value of a run of digits
RECURSIVE Number(_)
Number(digits) ==
    IF digits = <<>> THEN 0
    ELSE 10 * Number(SubSeq(digits, 1, Len(digits) - 1))
         + (CHOOSE d \in 0..9 : DigitChars[d + 1] = digits[Len(digits)])

NoMatch == -1
NoSuchBranch == -2

\* f"b{branch_num}" as a key of state["branches"]: digits with a leading zero
\* name no branch
BranchKey(digits) ==
    IF Len(digits) > 1 /\ Head(digits) = "0" THEN NoSuchBranch ELSE Number(digits)

\* b(\d+) at position i of the text
IdAt(text, i) ==
    IF i <= Len(text) /\ text[i] = "b" /\ RunEnd(text, i + 1, Digits) > i + 1
    THEN BranchKey(SubSeq(text, i + 1, RunEnd(text, i + 1, Digits) - 1))
    ELSE NoMatch

\* re.match(r'b(\d+)', text)
BranchMatch(text) == IdAt(text, 1)

\* re.search(word + r'\s+b(\d+)', text)
SearchRequest(word, text) ==
    LET after(i) == RunEnd(text, i + Len(word), Whitespace)
        hits == {i \in 1..Len(text) :
                    /\ OccursAt(word, text, i)
                    /\ after(i) > i + Len(word)
                    /\ IdAt(text, after(i)) # NoMatch}
    IN  IF hits = {} THEN NoMatch
        ELSE IdAt(text, after(CHOOSE i \in hits : \A j \in hits : i <= j))

\* re.findall(r'b\d+', ...) on the group (?:b\d+\s*)+ that starts at i
RECURSIVE IdsFrom(_, _)
IdsFrom(text, i) ==
    IF IdAt(text, i) = NoMatch THEN <<>>
    ELSE <<IdAt(text, i)>>
         \o IdsFrom(text, RunEnd(text, RunEnd(text, i + 1, Digits), Whitespace))

CombineWord == <<"c", "o", "m", "b", "i", "n", "e">>
DeleteWord == <<"d", "e", "l", "e", "t", "e">>
AddIdeaWord == <<"a", "d", "d", " ", "i", "d", "e", "a">>
StopWord == <<"s", "t", "o", "p">>

\* re.search(r'combine\s+((?:b\d+\s*)+)', text): the ids, none when no match
CombineIds(text) ==
    LET after(i) == RunEnd(text, i + Len(CombineWord), Whitespace)
        hits == {i \in 1..Len(text) :
                    /\ OccursAt(CombineWord, text, i)
                    /\ after(i) > i + Len(CombineWord)
                    /\ IdAt(text, after(i)) # NoMatch}
    IN  IF hits = {} THEN <<>>
        ELSE IdsFrom(text, after(CHOOSE i \in hits : \A j \in hits : i <= j))

\* int(text): an optional sign and digits
IsInt(text) ==
    LET body == IF text # <<>> /\ Head(text) \in {"+", "-"} THEN Tail(text) ELSE text
    IN  body # <<>> /\ \A i \in DOMAIN body : body[i] \in Digits
IntOf(text) ==
    IF Head(text) = "-" THEN 0 - Number(Tail(text))
    ELSE IF Head(text) = "+" THEN Number(Tail(text))
    ELSE Number(text)

\* the names of the three methodology threads, in lower case
LensNames ==
    <<<<"e", "m", "o", "t", "i", "o", "n", "a", "l", " ", "r", "o", "o", "t", " ", "c", "a", "u", "s", "e", "s">>,
      <<"u", "n", "c", "o", "n", "v", "e", "n", "t", "i", "o", "n", "a", "l", " ", "a", "s", "s", "o", "c", "i", "a", "t", "i", "o", "n", "s">>,
      <<"i", "m", "a", "g", "i", "n", "a", "r", "y", " ", "c", "u", "s", "t", "o", "m", "e", "r", "s", "'", " ", "f", "e", "e", "d", "b", "a", "c", "k">>>>

\* thread_map
thread_map ==
    {<<<<"e", "m", "o", "t", "i", "o", "n", "a", "l">>, 1>>,
     <<<<"e", "m", "o", "t", "i", "o", "n", "a", "l", " ", "r", "o", "o", "t">>, 1>>,
     <<<<"e", "m", "o", "t", "i", "o", "n", "a", "l", " ", "r", "o", "o", "t", " ", "c", "a", "u", "s", "e", "s">>, 1>>,
     <<<<"r", "o", "o", "t", " ", "c", "a", "u", "s", "e", "s">>, 1>>,
     <<<<"u", "n", "c", "o", "n", "v", "e", "n", "t", "i", "o", "n", "a", "l">>, 2>>,
     <<<<"u", "n", "c", "o", "n", "v", "e", "n", "t", "i", "o", "n", "a", "l", " ", "a", "s", "s", "o", "c", "i", "a", "t", "i", "o", "n", "s">>, 2>>,
     <<<<"a", "s", "s", "o", "c", "i", "a", "t", "i", "o", "n", "s">>, 2>>,
     <<<<"i", "m", "a", "g", "i", "n", "a", "r", "y">>, 3>>,
     <<<<"f", "e", "e", "d", "b", "a", "c", "k">>, 3>>,
     <<<<"i", "m", "a", "g", "i", "n", "a", "r", "y", " ", "c", "u", "s", "t", "o", "m", "e", "r", "s">>, 3>>,
     <<<<"c", "u", "s", "t", "o", "m", "e", "r", "s", " ", "f", "e", "e", "d", "b", "a", "c", "k">>, 3>>,
     <<<<"i", "m", "a", "g", "i", "n", "a", "r", "y", " ", "c", "u", "s", "t", "o", "m", "e", "r", "s", "'", " ", "f", "e", "e", "d", "b", "a", "c", "k">>, 3>>}

\* opt["name"].lower()
NameOf(th) == IF IsCombined(th.id) THEN lower(th.name) ELSE LensNames[th.id[2]]

\* the options whose name holds the text or is held by it
NamedOptions(ths, normalized_choice) ==
    SelectSeq(get_thread_options_display(ths),
              LAMBDA opt : \/ In(NameOf(GetThread(ths, opt.id)), normalized_choice)
                           \/ In(normalized_choice, NameOf(GetThread(ths, opt.id))))

\* the thread a text selects by name: thread_map first, then the first
\* listed option whose name matches
MatchByName(ths, normalized_choice) ==
    IF \E pair \in thread_map : pair[1] = normalized_choice
    THEN FixedThread((CHOOSE pair \in thread_map : pair[1] = normalized_choice)[2])
    ELSE IF NamedOptions(ths, normalized_choice) # <<>>
    THEN NamedOptions(ths, normalized_choice)[1].id
    ELSE NoThread

\* the command as process_thread_choice_multi reads it once it is not a
\* combine, b, delete or add idea command
ThreadChoiceOf(choice) ==
    IF strip(lower(choice)) = StopWord THEN [kind |-> "stop"]
    ELSE IF IsInt(strip(choice)) THEN [kind |-> "index", n |-> IntOf(strip(choice))]
    ELSE [kind |-> "text", text |-> strip(lower(choice))]

\* the thread commands tried: the index of the first lens and of the first
\* combined thread, when the listing shows it
ThreadChoices ==
    {[kind |-> "index", n |-> n] : n \in {1, 4}}
ListedChoices(ths) ==
    {choice \in ThreadChoices : OptionsAt(ths, choice.n) # <<>>}

\* process_thread_choice_multi for stop, an integer, or any other text
ProcessThreadChoiceMulti(choice) ==
    /\ cli = "top"
    /\ UNCHANGED <<probe, mindmap_name, scraper>>
    /\ removed' = {}
    /\ llm_called' = FALSE
    /\ IF choice.kind = "stop"
       THEN /\ current_step' = "end_session"
            /\ feedback' = "Ending the ideation session as requested."
            /\ switch_thread' = FALSE
            /\ cli' = "ending"
            /\ UNCHANGED <<graph, active>>
       ELSE IF choice.kind = "index" /\ OptionsAt(threads, choice.n) # <<>>
       THEN SelectThread(OptionsAt(threads, choice.n)[1].id)
       ELSE IF choice.kind = "text" /\ MatchByName(threads, choice.text) # NoThread
       THEN SelectThread(MatchByName(threads, choice.text))
       ELSE /\ feedback' = (IF choice.kind = "index" THEN "Invalid thread number."
                            ELSE "Invalid choice. Please select a valid option.")
            /\ switch_thread' = TRUE
            /\ cli' = "display"
            /\ UNCHANGED <<graph, active, current_step>>
    /\ UNCHANGED <<final_problem_statement, pending>>

\* if state["feedback"]: print(...); state["feedback"] = ""
DisplayFeedback ==
    /\ cli = "display"
    /\ UNCHANGED <<probe, mindmap_name, scraper>>
    /\ removed' = {}
    /\ feedback' = ""
    /\ cli' = "top"
    /\ llm_called' = FALSE
    /\ UNCHANGED <<final_problem_statement, current_step, graph, active, pending,
                   switch_thread>>

\* variant: the step is left as the command found it
EndWithoutStep ==
    /\ UNCHANGED <<probe, mindmap_name, scraper>>
    /\ removed' = {}
    /\ feedback' = "Ideation session ended."
    /\ llm_called' = FALSE
    /\ UNCHANGED <<final_problem_statement, current_step, graph, active, pending,
                   switch_thread>>

\* end_session
end_session ==
    /\ UNCHANGED <<probe, mindmap_name, scraper>>
    /\ removed' = {}
    /\ current_step' = "session_ended"
    /\ feedback' = "Ideation session ended."
    /\ llm_called' = FALSE
    /\ UNCHANGED <<final_problem_statement, graph, active, pending, switch_thread>>

\* end_session, reached by the stop command of run_cli_workflow
EndSession ==
    /\ cli = "top"
    /\ cli' = "done"
    /\ end_session

\* the end_session node, reached from process_thread_choice on its stop
EndSessionNode ==
    /\ cli = "ending"
    /\ cli' = "done"
    /\ end_session

\* the stop command as process_thread_choice_multi reads it
StopChoice == [kind |-> "stop"]

(***************************************************************************)
(* Harvesting                                                              *)
(***************************************************************************)
SectionOrder(t) ==
    IF t = FixedThread(1)
    THEN <<"emotionalSeeds", "habitHeuristicAlignment", "delightfulSubversion">>
    ELSE IF t = FixedThread(2)
    THEN <<"attributeBasedBridging", "broaderDomains">>
    ELSE <<>>

\* json_data[key] of an object reply, <<>> when the key is absent
SectionItems(json, key) ==
    LET hit == SelectSeq(json.sections, LAMBDA sec : sec.key = key)
    IN  IF hit = <<>> THEN <<>> ELSE hit[1].items

\* variant: the sections are read in the order the reply lists them
GatherInReplyOrder(json, keys) ==
    LET RECURSIVE walk(_)
        walk(secs) ==
            IF secs = <<>> THEN <<>>
            ELSE (IF Head(secs).key \in Range(keys)
                  THEN [i \in DOMAIN Head(secs).items |->
                           [item |-> Head(secs).items[i], source |-> <<Head(secs).key>>]]
                  ELSE <<>>)
                 \o walk(Tail(secs))
    IN  walk(json.sections)

\* the items of the thread's sections, in the thread's section order
RECURSIVE GatherSections(_, _)
GatherSections(json, keys) ==
    IF keys = <<>> THEN <<>>
    ELSE [i \in DOMAIN SectionItems(json, Head(keys)) |->
             [item |-> SectionItems(json, Head(keys))[i], source |-> <<Head(keys)>>]]
         \o GatherSections(json, Tail(keys))

\* the list "branches" built by create_branches_from_exploration
HarvestList(t, json) ==
    IF t = FixedThread(3)
    THEN IF json.kind = "array"
         THEN [i \in DOMAIN json.items |->
                  [item |-> json.items[i], source |-> <<"imaginaryFeedback">>]]
         ELSE <<>>
    ELSE IF json.kind = "object" THEN GatherSections(json, SectionOrder(t))
    ELSE <<>>

\* item["heading"] etc. on thread_1/thread_2, user_item.get on thread_3
HarvestRaises(t, json) ==
    \E i \in DOMAIN HarvestList(t, json) :
        LET item == HarvestList(t, json)[i].item
        IN  \/ ~IsRecord(item)
            \/ t # FixedThread(3)
               /\ ~({"heading", "explanation", "productDirection"} \subseteq DOMAIN item)

HarvestData(t, entry) ==
    IF t = FixedThread(3)
    THEN [heading |-> Get(entry.item, "heading", <<"User <n>">>),
          explanation |-> Get(entry.item, "explanation", <<>>),
          productDirection |-> Get(entry.item, "productDirection", <<>>),
          userProfile |-> Get(entry.item, "userProfile", <<>>),
          source |-> entry.source]
    ELSE [heading |-> entry.item.heading,
          explanation |-> entry.item.explanation,
          productDirection |-> entry.item.productDirection,
          source |-> entry.source]

\* one round of "for branch_data in branches"
AddHarvestedBranch(s, t, entry) ==
    LET bd == standardize_concept_branch_data(HarvestData(t, entry))
        id == NextBranchId(s)
        th == GetThread(s.threads, t)
        s1 == TakeId(s)
    IN  [s1 EXCEPT
            !.branches = PutBranch(@, id, ConceptBranch(id, t, bd, bd.source, None)),
            !.threads = SetThread(@, [th EXCEPT !.branches = @ \cup {id}]),
            !.mindmap = IF HasThreadNode(@, t) THEN MMAppend(@, t, BNode(id)) ELSE @]

RECURSIVE AddHarvested(_, _, _)
AddHarvested(s, t, list) ==
    IF list = <<>> THEN s
    ELSE AddHarvested(AddHarvestedBranch(s, t, Head(list)), t, Tail(list))

create_branches_from_exploration(s, t, json) ==
    AddHarvested(s, t, HarvestList(t, json))

\* a reply that carries no JSON at all
Prose == Reply("prose", "none", <<>>, <<>>)

HarvestReplies ==
    { Reply("pure", "object", <<Section("emotionalSeeds", <<ItemFull>>)>>, <<>>),
      Prose }

\* thread_exploration
ThreadExploration(resp) ==
    LET t == active_thread
        th == GetThread(threads, t)
        s1 == [Cur EXCEPT !.threads = SetThread(@, AddMessage(th))]
        ok == ParsesWithRegex(resp.shape) /\ ~HarvestRaises(t, resp)
        s2 == IF ok THEN create_branches_from_exploration(s1, t, resp) ELSE s1
    IN  /\ cli = "explore"
        /\ UNCHANGED <<probe, mindmap_name, scraper>>
        /\ removed' = {}
        /\ Store(s2)
        /\ feedback' = (IF ok THEN "Successfully explored and captured structured data."
                        ELSE "Explored, but couldn't extract structured data.")
        /\ cli' = "display"
        /\ llm_called' = TRUE
        /\ UNCHANGED <<final_problem_statement, current_step, active_thread,
                       pending, switch_thread>>

(***************************************************************************)
(* Expansion and authoring: child branches                                 *)
(***************************************************************************)
\* variant: the sub-branch is put at the front of its parent's children
AddChildInFront(s, parent, c, source, user_created) ==
    LET id == NextBranchId(s)
        t == s.branches[parent].thread_id
        sub == ConceptBranch(id, t, c, source, parent)
               @@ Opt(user_created, "user_created", TRUE)
        s1 == TakeId(s)
        bs1 == PutBranch(s1.branches, id, sub)
    IN  [s1 EXCEPT
            !.branches = [bs1 EXCEPT ![parent].children = <<id>> \o @],
            !.mindmap = IF HasThreadNode(@, t) /\ BNode(parent) \in Range(@[t])
                        THEN MMAppend(@, BNode(parent), BNode(id)) ELSE @]

\* the sub-branch is registered, appended to its parent's children and, when
\* the parent's node is a direct child of the thread node, to the mindmap
AddChild(s, parent, c, source, user_created) ==
    LET id == NextBranchId(s)
        t == s.branches[parent].thread_id
        sub == ConceptBranch(id, t, c, source, parent)
               @@ Opt(user_created, "user_created", TRUE)
        s1 == TakeId(s)
        bs1 == PutBranch(s1.branches, id, sub)
    IN  [s1 EXCEPT
            !.branches = [bs1 EXCEPT ![parent].children = Append(@, id)],
            !.mindmap = IF HasThreadNode(@, t) /\ BNode(parent) \in Range(@[t])
                        THEN MMAppend(@, BNode(parent), BNode(id)) ELSE @]

\* variant: the loop stops after the first record
AddFirstOnly(s, parent, items) ==
    IF items = <<>> THEN [s |-> s, raised |-> FALSE]
    ELSE IF ~IsRecord(Head(items)) \/ StdConceptRaises(Head(items))
    THEN [s |-> s, raised |-> TRUE]
    ELSE [s |-> AddChild(s, parent,
                         standardize_concept_branch_data(Head(items)),
                         <<"concept_expansion">>, FALSE),
          raised |-> FALSE]

\* "for idx, concept in enumerate(expanded_concepts)", up to the item that raises
RECURSIVE AddExpanded(_, _, _)
AddExpanded(s, parent, items) ==
    IF items = <<>> THEN [s |-> s, raised |-> FALSE]
    ELSE IF ~IsRecord(Head(items)) \/ StdConceptRaises(Head(items))
    THEN [s |-> s, raised |-> TRUE]
    ELSE AddExpanded(AddChild(s, parent,
                              standardize_concept_branch_data(Head(items)),
                              <<"concept_expansion">>, FALSE),
                     parent, Tail(items))

ExpandReplies == { Reply("pure", "array", <<>>, <<ItemFull>>), Prose }

\* Python truthiness of branch["expansion_data"]
DataTruthy(tag) == tag \in {"data", "raw"}

\* variant: the selection leaves the active thread as it is
ThreadKept(bs, current, n) == current

\* state["active_thread"] = branch["thread_id"]
ThreadOfSelection(bs, current, n) == bs[n].thread_id

\* process_branch_selection
process_branch_selection(n) ==
    /\ UNCHANGED <<probe, mindmap_name, scraper>>
    /\ removed' = {}
    /\ IF n \notin DOMAIN branches
       THEN /\ feedback' = "Branch does not exist."
            /\ llm_called' = FALSE
            /\ UNCHANGED <<active, current_step,
                           awaiting_concept_input, concept_expansion_context>>
       ELSE /\ active_branch' = n
            /\ active_thread' = ThreadOfSelection(branches, active_thread, n)
            /\ IF branches[n].expanded /\ DataTruthy(branches[n].expansion_data)
               THEN /\ current_step' = "branch_expansion_options"
                    /\ llm_called' = FALSE
                    /\ UNCHANGED <<awaiting_concept_input,
                                   concept_expansion_context>>
               ELSE /\ awaiting_concept_input' = TRUE
                    /\ concept_expansion_context' = n
                    /\ current_step' = "await_concept_input"
                    /\ llm_called' = TRUE
            /\ UNCHANGED feedback
    /\ UNCHANGED <<final_problem_statement, threads, branches, branch_counter,
                   mindmap, issued, awaiting_idea_input, idea_input_context,
                   awaiting_deletion_confirmation, deletion_context>>

\* the b<n> command of run_cli_workflow: the selection, and the guidance
\* prompt when the selection asks for it
ProcessBranchSelection(n) ==
    /\ cli = "top"
    /\ process_branch_selection(n)
    /\ cli' = (IF awaiting_concept_input' THEN "concept_input" ELSE "top")
    /\ UNCHANGED switch_thread

\* process_branch_selection, reached through process_thread_choice_multi:
\* run_cli_workflow asks for no guidance afterwards
SelectionByThreadChoice(n) ==
    /\ cli = "top"
    /\ process_branch_selection(n)
    /\ cli' = "top"
    /\ switch_thread' = FALSE

\* process_concept_input; state["branches"][branch_id] raises KeyError when
\* the branch of the context is no longer registered, and run_cli_workflow
\* ends with it
ProcessConceptInput ==
    /\ cli = "concept_input"
    /\ UNCHANGED <<probe, mindmap_name, scraper>>
    /\ removed' = {}
    /\ IF concept_expansion_context \in DOMAIN branches
       THEN /\ awaiting_concept_input' = FALSE
            /\ current_step' = "expand_concept"
            /\ cli' = "expand"
       ELSE /\ cli' = "raised"
            /\ UNCHANGED <<awaiting_concept_input, current_step>>
    /\ llm_called' = FALSE
    /\ UNCHANGED <<final_problem_statement, graph, active,
                   concept_expansion_context, awaiting_idea_input,
                   idea_input_context, awaiting_deletion_confirmation,
                   deletion_context, switch_thread, feedback>>

\* expand_concept
ExpandConcept(resp) ==
    LET b == concept_expansion_context
        parsed == ParsesStripped(resp.shape)
        data == IF resp.kind = "empty_object" THEN "empty" ELSE "data"
        s1 == [Cur EXCEPT !.branches[b].expanded = TRUE,
                          !.branches[b].expansion_data = data]
        r == AddExpanded(s1, b, resp.items)
        degraded == ~parsed \/ r.raised
        mid == IF parsed THEN r.s ELSE Cur
        s2 == IF degraded
              THEN [mid EXCEPT !.branches[b].expanded = TRUE,
                               !.branches[b].expansion_data = "raw"]
              ELSE mid
    IN  /\ cli = "expand"
        /\ UNCHANGED <<probe, mindmap_name, scraper>>
        /\ removed' = {}
        /\ Store(s2)
        /\ feedback' = (IF degraded
                        THEN "Expanded concept, but couldn't extract structured data."
                        ELSE "Successfully expanded concept and created sub-branches.")
        /\ current_step' = "present_exploration_options"
        /\ concept_expansion_context' = None
        /\ cli' = "display"
        /\ llm_called' = TRUE
        /\ UNCHANGED <<final_problem_statement, active_thread,
                       awaiting_concept_input, awaiting_idea_input,
                       idea_input_context, awaiting_deletion_confirmation,
                       deletion_context, switch_thread>>

\* process_add_idea_request
ProcessAddIdeaRequest(n) ==
    /\ cli = "top"
    /\ UNCHANGED <<probe, mindmap_name, scraper>>
    /\ removed' = {}
    /\ llm_called' = FALSE
    /\ IF n \notin DOMAIN branches
       THEN /\ feedback' = "Branch does not exist."
            /\ UNCHANGED <<current_step, cli, awaiting_idea_input, idea_input_context>>
       ELSE /\ awaiting_idea_input' = TRUE
            /\ idea_input_context' = n
            /\ current_step' = "await_idea_input"
            /\ cli' = "idea_input"
            /\ UNCHANGED feedback
    /\ UNCHANGED <<final_problem_statement, graph, active,
                   awaiting_concept_input, concept_expansion_context,
                   awaiting_deletion_confirmation, deletion_context, switch_thread>>

UserIdea == <<"my", "idea">>

\* variant: the fallback takes the normalizer's placeholder heading and no text
FallbackUntitled == [heading |-> <<"Untitled Concept">>, explanation |-> <<>>,
                     productDirection |-> <<>>]

\* concept_data of the except branch of process_user_idea
FallbackIdea == [heading |-> <<"User Idea">>, explanation |-> UserIdea,
                 productDirection |-> <<>>]

AuthorReplies == { Reply("pure", "object", <<>>, <<ItemFull>>), Prose }

\* process_user_idea
ProcessUserIdea(resp) ==
    LET b == idea_input_context
        structured == /\ ParsesStripped(resp.shape)
                      /\ resp.kind = "object"      \* a list has no .get
                      /\ ~StdConceptRaises(resp.items[1])
        c == IF structured THEN standardize_concept_branch_data(resp.items[1])
             ELSE FallbackIdea
        s1 == AddChild(Cur, b, c, <<"user_input">>, TRUE)
    IN  /\ cli = "idea_input"
        /\ UNCHANGED <<probe, mindmap_name, scraper>>
        /\ removed' = {}
        /\ Store(s1)
        /\ feedback' = (IF structured THEN "Successfully added your idea."
                        ELSE "Added your idea, but couldn't structure it in the standard format.")
        /\ awaiting_idea_input' = FALSE
        /\ idea_input_context' = None
        /\ current_step' = "present_exploration_options"
        /\ cli' = "display"
        /\ llm_called' = TRUE
        /\ UNCHANGED <<final_problem_statement, active_thread,
                       awaiting_concept_input, concept_expansion_context,
                       awaiting_deletion_confirmation, deletion_context,
                       switch_thread>>

(***************************************************************************)
(* Deletion                                                                *)
(***************************************************************************)
\* variant: only the direct children are counted
CountDirectChildren(bs, id) ==
    IF id \notin DOMAIN bs THEN 0 ELSE Len(bs[id].children)

RECURSIVE count_branch_children(_, _)
count_branch_children(bs, id) ==
    IF id \notin DOMAIN bs THEN 0
    ELSE LET kids == bs[id].children
             RECURSIVE Sum(_)
             Sum(i) == IF i = 0 THEN 0
                       ELSE count_branch_children(bs, kids[i]) + Sum(i - 1)
         IN  Len(kids) + Sum(Len(kids))

\* find_branch_node_in_mindmap(thread_node, id) finds a node
FindsNode(mm, t, node) == node \in MMSubtree(mm, t)

\* variant: the mindmap is left as it is
MindmapKept(s, id) == s.mindmap

\* remove_branch_from_mindmap
remove_branch_from_mindmap(s, id) ==
    IF id \notin DOMAIN s.branches THEN s.mindmap
    ELSE LET t == s.branches[id].thread_id
             parent == s.branches[id].parent_branch
         IN  IF ~HasThreadNode(s.mindmap, t) THEN s.mindmap
             ELSE IF parent # None
             THEN IF FindsNode(s.mindmap, t, BNode(parent))
                  THEN MMRemoveChild(s.mindmap, BNode(parent), BNode(id))
                  ELSE s.mindmap
             ELSE MMRemoveChild(s.mindmap, t, BNode(id))

\* variant: the parent's list is left as it is
KeepingChild(children, id) == children

\* parent["children"] = [c for c in parent["children"] if c != branch_id]
WithoutChild(children, id) == SelectSeqNe(children, id)

\* variant: the active branch is left as it is
ActiveKept(current, id) == current

\* if state["active_branch"] == branch_id: state["active_branch"] = None
ActiveAfterDelete(current, id) == IF current = id THEN None ELSE current

\* variant: a combined thread whose map becomes empty leaves the registry
DropEmptyThread(ths, t, id) ==
    IF t \notin ThreadIds(ths) THEN ths
    ELSE IF IsCombined(t) /\ GetThread(ths, t).branches \subseteq {id}
    THEN SelectSeq(ths, LAMBDA th : th.id # t)
    ELSE SetThread(ths, [GetThread(ths, t) EXCEPT !.branches = @ \ {id}])

\* if thread_id in state["threads"]: del thread["branches"][branch_id]
ThreadsAfterDelete(ths, t, id) ==
    IF t \in ThreadIds(ths)
    THEN SetThread(ths, [GetThread(ths, t) EXCEPT !.branches = @ \ {id}])
    ELSE ths

\* variant: the products that name the branch as a source leave the registry
\* with it
DetachWithProducts(s, id, t, parent) ==
    LET products == {p \in DOMAIN s.branches :
                        /\ Has(s.branches[p], "source_concepts")
                        /\ id \in Range(s.branches[p].source_concepts)}
        ths1 == ThreadsAfterDelete(s.threads, t, id)
        s1 == [s EXCEPT !.threads = ths1]
        s2 == [s1 EXCEPT !.mindmap = remove_branch_from_mindmap(s1, id)]
    IN  [s2 EXCEPT !.branches = DelBranches(@, {id} \cup products),
                   !.active_branch = ActiveAfterDelete(@, id)]

\* the steps of delete_branch after its children have been deleted
DetachBranch(s, id, t, parent) ==
    LET bs1 == IF parent # None /\ parent \in DOMAIN s.branches
               THEN [s.branches EXCEPT ![parent].children = WithoutChild(@, id)]
               ELSE s.branches
        ths1 == ThreadsAfterDelete(s.threads, t, id)
        s1 == [s EXCEPT !.branches = bs1, !.threads = ths1]
        s2 == [s1 EXCEPT !.mindmap = remove_branch_from_mindmap(s1, id)]
    IN  [s2 EXCEPT !.branches = DelBranches(@, {id}),
                   !.active_branch = ActiveAfterDelete(@, id)]

\* variant: the children are left in the registry
SkipChildren(s, ids) == s

\* variant: a missing id still clears the active branch
MissingClearsActive(s, id) == [s EXCEPT !.active_branch = None]

\* if branch_id not in state["branches"]: return state
MissingBranch(s, id) == s

RECURSIVE delete_branch(_, _), DeleteEach(_, _)
delete_branch(s, id) ==
    IF id \notin DOMAIN s.branches THEN MissingBranch(s, id)
    ELSE LET b == s.branches[id]
         IN  DetachBranch(DeleteEach(s, b.children), id, b.thread_id, b.parent_branch)

\* for child_id in children_to_delete: delete_branch(state, child_id)
DeleteEach(s, ids) ==
    IF ids = <<>> THEN s
    ELSE DeleteEach(delete_branch(s, Head(ids)), Tail(ids))

\* state["deletion_context"] = {}
NoDeletion == [branch_id |-> None, branch_heading |-> <<>>, children_count |-> 0]

\* process_delete_request
ProcessDeleteRequest(n) ==
    /\ cli = "top"
    /\ UNCHANGED <<probe, mindmap_name, scraper>>
    /\ removed' = {}
    /\ llm_called' = FALSE
    /\ IF n \notin DOMAIN branches
       THEN /\ feedback' = "Branch does not exist."
            /\ UNCHANGED <<current_step, cli, awaiting_deletion_confirmation,
                           deletion_context>>
       ELSE /\ awaiting_deletion_confirmation' = TRUE
            /\ deletion_context' = [branch_id |-> n,
                                    branch_heading |-> branches[n].heading,
                                    children_count |-> count_branch_children(branches, n)]
            /\ current_step' = "await_deletion_confirmation"
            /\ cli' = "confirm_deletion"
            /\ UNCHANGED feedback
    /\ UNCHANGED <<final_problem_statement, graph, active,
                   awaiting_concept_input, concept_expansion_context,
                   awaiting_idea_input, idea_input_context, switch_thread>>

Affirmative == {"yes", "y", "confirm", "delete"}
Confirmations == Affirmative \cup {"no"}

\* process_deletion_confirmation
process_deletion_confirmation(confirmation) ==
    /\ llm_called' = FALSE
    /\ UNCHANGED <<probe, mindmap_name, scraper>>
    /\ IF ~awaiting_deletion_confirmation
       THEN /\ feedback' = "No deletion in progress."
            /\ UNCHANGED <<graph, active_branch, awaiting_deletion_confirmation,
                           deletion_context, current_step, removed>>
       ELSE /\ awaiting_deletion_confirmation' = FALSE
            /\ IF confirmation \in Affirmative
               THEN /\ Store(delete_branch(Cur, deletion_context.branch_id))
                    /\ removed' = DOMAIN branches \ DOMAIN branches'
                    /\ feedback' = "Successfully deleted branch and all its sub-branches."
               ELSE /\ feedback' = "Branch deletion cancelled."
                    /\ UNCHANGED <<graph, active_branch, removed>>
            /\ deletion_context' = NoDeletion
            /\ current_step' = "present_exploration_options"
    /\ UNCHANGED <<final_problem_statement, active_thread,
                   awaiting_concept_input, concept_expansion_context,
                   awaiting_idea_input, idea_input_context, switch_thread>>

\* the confirmation that run_cli_workflow reads after a delete request
ProcessDeletionConfirmation(confirmation) ==
    /\ cli = "confirm_deletion"
    /\ cli' = "display"
    /\ process_deletion_confirmation(confirmation)

(***************************************************************************)
(* Combination                                                             *)
(***************************************************************************)
ProductPlain == [heading |-> <<"H">>, description |-> <<"D">>,
                 featureLists |-> <<<<"F">>>>]
ProductDeclared == [heading |-> <<"H">>, description |-> <<"D">>,
                    featureLists |-> <<<<"F">>>>, sourceConcepts |-> <<1>>]
StringItem == [string |-> <<"S">>]
IsString(x) == Has(x, "string")

\* the record a bare string item is replaced by
WrapString(x) == [heading |-> <<"Combined Concept <n>">>, description |-> x.string,
                  features |-> <<<<"No specific features provided">>>>,
                  category |-> "product"]

\* source_concepts = source_branch_ids
\* if "sourceConcepts" in concept: source_concepts = concept["sourceConcepts"]
SourceConceptsOf(concept, source_branch_ids) ==
    IF Has(concept, "sourceConcepts") THEN concept.sourceConcepts
    ELSE source_branch_ids

ProductBranch(id, thread_id, c, source_concepts) ==
    [id |-> id, thread_id |-> thread_id, heading |-> c.heading,
     description |-> c.description, features |-> c.features,
     source |-> <<"concept_combination">>, parent_branch |-> None,
     children |-> <<>>, expanded |-> FALSE, expansion_data |-> "None",
     source_concepts |-> source_concepts, category |-> "product"]

\* variant: the thread numbered from the size of the registry
ThreadFromRegistrySize(s) == CombinedThread(Cardinality(DOMAIN s.branches) + 1)

\* thread_id = f"thread_combined_{state['branch_counter']}", after the increment
NewThreadId(s) == CombinedThread(s.branch_counter)

\* one round of the loop of create_individual_combined_threads
AddCombined(s, item, source_branch_ids) ==
    LET concept == standardize_product_branch_data(
                       IF IsString(item) THEN WrapString(item) ELSE item)
        id == NextBranchId(s)
        s1 == TakeId(s)
        t == NewThreadId(s1)
        nb == ProductBranch(id, t, concept, SourceConceptsOf(concept, source_branch_ids))
    IN  [s1 EXCEPT
            !.branches = PutBranch(@, id, nb),
            !.threads = SetThread(@, [id |-> t, name |-> concept.heading,
                                          messages |-> Counted(3),
                                          branches |-> {id}]),
            !.mindmap = MMAppend(MMAppend(@, Root, t), t, BNode(id))]

RECURSIVE create_individual_combined_threads(_, _, _, _)
create_individual_combined_threads(s, items, source_branch_ids, thread_ids) ==
    IF items = <<>> THEN [s |-> s, raised |-> FALSE, thread_ids |-> thread_ids]
    ELSE IF ~IsRecord(Head(items))
    THEN [s |-> s, raised |-> TRUE, thread_ids |-> thread_ids]
    ELSE LET s1 == AddCombined(s, Head(items), source_branch_ids)
         IN  create_individual_combined_threads(s1, Tail(items), source_branch_ids,
                                                Append(thread_ids, NewThreadId(s1)))

\* fallback_concept of the except branch of combine_concepts
FallbackConcept(branch_ids) ==
    [heading |-> <<"Combined Product Idea">>,
     description |-> <<"This combines elements from the selected concepts.">>,
     features |-> <<<<"Generated product idea based on combined concepts">>>>,
     sourceConcepts |-> branch_ids]

\* variant: a reply that is not a list yields no record
ArrayOnly(resp) == IF resp.kind = "array" THEN resp.items ELSE <<>>

\* json_data after "if not isinstance(json_data, list)"
AsList(resp) ==
    IF resp.kind = "array" THEN resp.items
    ELSE IF resp.kind = "object" THEN <<resp.items[1]>>
    ELSE <<[heading |-> <<"Combined Concept">>, explanation |-> <<"<scalar>">>,
            featureLists |-> <<>>]>>

\* combine_concepts: the session state and the ids of the threads it created
CombineResult(s, resp, branch_ids) ==
    LET parsed == ParsesStripped(resp.shape)
        r == create_individual_combined_threads(s, AsList(resp), branch_ids, <<>>)
        failed == ~parsed \/ r.raised
        mid == IF parsed THEN r.s ELSE s
        fb == create_individual_combined_threads(mid, <<FallbackConcept(branch_ids)>>,
                                                 branch_ids, <<>>)
    IN  IF failed THEN [s |-> fb.s, thread_ids |-> fb.thread_ids, failed |-> TRUE]
        ELSE [s |-> r.s, thread_ids |-> r.thread_ids, failed |-> FALSE]

CombineReplies ==
    { Reply("pure", "array", <<>>, <<ProductPlain>>),
      Reply("pure", "array", <<>>, <<ProductDeclared, ProductPlain>>),
      Prose }

BranchNumbers == 1..MaxCounter
\* no id, one id, and b1 paired with every id
CombineArgs == {<<>>, <<1>>} \cup {<<1, n>> : n \in BranchNumbers}

\* variant: no id is looked up
NoneInvalid(bs, branch_ids) == <<>>

\* invalid_branches = [bid for bid in branch_ids if bid not in state["branches"]]
invalid_branches(bs, branch_ids) ==
    SelectSeq(branch_ids, LAMBDA bid : bid \notin DOMAIN bs)

\* process_combine_request, which runs combine_concepts on a valid request
ProcessCombineRequest(branch_ids, resp) ==
    /\ cli = "top"
    /\ UNCHANGED <<probe, mindmap_name, scraper>>
    /\ cli' = "display"
    /\ removed' = {}
    /\ IF branch_ids = <<>>
       THEN /\ feedback' = "Invalid format."
            /\ llm_called' = FALSE
            /\ UNCHANGED <<graph, active>>
       ELSE IF Len(branch_ids) < 2
       THEN /\ feedback' = "Please select at least 2 branches to combine."
            /\ llm_called' = FALSE
            /\ UNCHANGED <<graph, active>>
       ELSE IF invalid_branches(branches, branch_ids) # <<>>
       THEN /\ feedback' = "Branch(es) do not exist."
            /\ llm_called' = FALSE
            /\ UNCHANGED <<graph, active>>
       ELSE LET r == CombineResult(Cur, resp, branch_ids)
                s1 == IF r.thread_ids # <<>>
                      THEN [r.s EXCEPT !.active_branch = None] ELSE r.s
            IN  /\ llm_called' = TRUE
                        /\ Store(s1)
                /\ active_thread' = (IF r.thread_ids # <<>> THEN r.thread_ids[1]
                                     ELSE active_thread)
                /\ feedback' = (IF r.failed
                                THEN "Created a combined concept with the generated content."
                                ELSE "Successfully combined concepts.")
    /\ UNCHANGED <<final_problem_statement, current_step, pending, switch_thread>>

(***************************************************************************)
(* The session                                                             *)
(***************************************************************************)
\* a combine command that passes the checks of process_combine_request
ValidCombine(ids) == Len(ids) >= 2 /\ invalid_branches(branches, ids) = <<>>

\* the collaborator answers only a command that passes the checks
RepliesRead(ids) == IF ValidCombine(ids) THEN CombineReplies ELSE {Prose}

\* the ids handed out stay within the bound of the run
Within(cap) == branch_counter' <= cap

Next ==
    \/ \E ok1 \in BOOLEAN : \E out2 \in Outcomes2 : GenerateStatements(ok1, out2)
    \/ \E choice \in {"1", "r1", "r2"} : ProcessUserChoice(choice)
    \/ PresentExplorationOptions
    \/ DisplayFeedback
    \/ \E choice \in ListedChoices(threads) : ProcessThreadChoiceMulti(choice)
    \/ EndSession
    \/ \E resp \in HarvestReplies : ThreadExploration(resp) /\ Within(MaxCounter)
    \/ \E n \in BranchNumbers : ProcessBranchSelection(n)
    \/ ProcessConceptInput
    \/ \E resp \in ExpandReplies : ExpandConcept(resp) /\ Within(MaxCounter)
    \/ \E n \in BranchNumbers : ProcessAddIdeaRequest(n)
    \/ \E resp \in AuthorReplies : ProcessUserIdea(resp) /\ Within(MaxCounter)
    \/ \E n \in BranchNumbers : ProcessDeleteRequest(n)
    \/ \E c \in Confirmations : ProcessDeletionConfirmation(c)
    \/ \E ids \in CombineArgs :
           \E resp \in RepliesRead(ids) :
               ProcessCombineRequest(ids, resp) /\ Within(MaxCounter)

Spec == Init /\ [][Next]_vars

(***************************************************************************)
(* The session answered by replies of every shape, by arrays of several    *)
(* records and by arrays with a malformed element                          *)
(***************************************************************************)
MaxReplyCounter == 4

\* the shapes of a reply that carries a JSON document
JsonShapes == {"pure", "fenced", "embedded"}

Shapes == JsonShapes \cup {"prose"}

\* one well-formed answer to each operation, in the given shape
HarvestOfShape(shape) ==
    IF shape = "prose" THEN Prose
    ELSE Reply(shape, "object", <<Section("emotionalSeeds", <<ItemFull>>)>>, <<>>)
ExpandOfShape(shape) ==
    IF shape = "prose" THEN Prose ELSE Reply(shape, "array", <<>>, <<ItemFull>>)
AuthorOfShape(shape) ==
    IF shape = "prose" THEN Prose ELSE Reply(shape, "object", <<>>, <<ItemFull>>)
CombineOfShape(shape) ==
    IF shape = "prose" THEN Prose ELSE Reply(shape, "array", <<>>, <<ProductPlain>>)

ShapedHarvestReplies ==
    {HarvestOfShape(shape) : shape \in Shapes}
    \cup {Reply("pure", "object",
                <<Section("emotionalSeeds", <<ItemFull, ItemNoHeading>>)>>, <<>>)}

ShapedExpandReplies ==
    {ExpandOfShape(shape) : shape \in Shapes}
    \cup {Reply("pure", "array", <<>>, <<ItemFull, ItemNoHeading, ItemFull>>),
          Reply("pure", "array", <<>>, <<ItemFull, NonRecord>>)}

\* a record the concept normalizer raises on
ItemIllTyped == [heading |-> <<"H">>, explanation |-> JNumber,
                 productDirection |-> <<"P">>]

ShapedAuthorReplies ==
    {AuthorOfShape(shape) : shape \in Shapes}
    \cup {Reply("pure", "array", <<>>, <<ItemFull>>),
          Reply("pure", "object", <<>>, <<ItemIllTyped>>)}

ShapedCombineReplies ==
    {CombineOfShape(shape) : shape \in Shapes}
    \cup {Reply("pure", "array", <<>>, <<ProductPlain, NonRecord>>),
          Reply("pure", "array", <<>>, <<ProductDeclared, ProductPlain>>),
          Reply("fenced", "object", <<>>, <<ProductPlain>>)}

\* the commands of this session: thread 1, the first two branches
ReplyBranchNumbers == {1, 2}
ReplyCombineArgs == {<<1, 2>>}

NextReplies ==
    \/ GenerateStatements(TRUE, "ok")
    \/ ProcessUserChoice("1")
    \/ PresentExplorationOptions
    \/ DisplayFeedback
    \/ ProcessThreadChoiceMulti([kind |-> "index", n |-> 1])
    \/ \E resp \in ShapedHarvestReplies :
           ThreadExploration(resp) /\ Within(MaxReplyCounter)
    \/ \E n \in ReplyBranchNumbers : ProcessBranchSelection(n)
    \/ ProcessConceptInput
    \/ \E resp \in ShapedExpandReplies :
           ExpandConcept(resp) /\ Within(MaxReplyCounter)
    \/ \E n \in ReplyBranchNumbers : ProcessAddIdeaRequest(n)
    \/ \E resp \in ShapedAuthorReplies :
           ProcessUserIdea(resp) /\ Within(MaxReplyCounter)
    \/ \E ids \in ReplyCombineArgs :
           \E resp \in (IF ValidCombine(ids) THEN ShapedCombineReplies ELSE {Prose}) :
               ProcessCombineRequest(ids, resp) /\ Within(MaxReplyCounter)

SpecReplies == Init /\ [][NextReplies]_vars

(***************************************************************************)
(* The session of a caller that also calls the handlers directly:          *)
(* ensure_categories_in_branches between two commands, and                 *)
(* process_deletion_confirmation with no delete request before it          *)
(***************************************************************************)
determine_branch_category(b) ==
    IF IsCombined(b.thread_id) THEN "product"
    ELSE IF Get(b, "source", <<>>) = <<"concept_combination">> THEN "product"
    ELSE IF Has(b, "source_concepts") /\ Len(b.source_concepts) > 1 THEN "product"
    ELSE IF Get(b, "category", "") \in {"concept", "product"} THEN b.category
    ELSE "concept"

\* the fields of a normalized payload that the branch records leave out
Untracked == {"content", "source_idx"}

\* for key, value in standardized.items(): branch[key] = value
UpdatedWith(b, standardized) ==
    [k \in (DOMAIN standardized) \ Untracked |-> standardized[k]] @@ b

\* one round of the loop of ensure_categories_in_branches
EnsureBranch(b) ==
    LET proper_category == determine_branch_category(b)
        b1 == [b EXCEPT !.category = proper_category]
    IN  IF proper_category = "product"
        THEN UpdatedWith(b1, standardize_product_branch_data(b1))
        ELSE UpdatedWith(b1, standardize_concept_branch_data(b1))

ensure_categories_in_branches(bs) == [n \in DOMAIN bs |-> EnsureBranch(bs[n])]

EnsureCategories ==
    /\ cli = "top"
    /\ UNCHANGED <<probe, mindmap_name, scraper>>
    /\ removed' = {}
    /\ llm_called' = FALSE
    /\ branches' = ensure_categories_in_branches(branches)
    /\ UNCHANGED <<final_problem_statement, current_step, threads, branch_counter,
                   mindmap, issued, active, pending, switch_thread, feedback, cli>>

\* present_exploration_options called again between two commands
PresentAgain ==
    /\ cli = "top"
    /\ cli' = "top"
    /\ present_exploration_options

\* process_deletion_confirmation called between two commands
ConfirmationWithoutRequest(confirmation) ==
    /\ cli = "top"
    /\ cli' = "display"
    /\ process_deletion_confirmation(confirmation)

\* the commands of this session: thread 1, well-formed replies, b1 combined
\* with itself
CallCombineArgs == {<<1, 1>>}

NextCalls ==
    \/ GenerateStatements(TRUE, "ok")
    \/ ProcessUserChoice("1")
    \/ PresentExplorationOptions
    \/ DisplayFeedback
    \/ ProcessThreadChoiceMulti([kind |-> "index", n |-> 1])
    \/ ThreadExploration(HarvestOfShape("pure")) /\ Within(MaxCounter)
    \/ \E n \in BranchNumbers : ProcessBranchSelection(n)
    \/ ProcessConceptInput
    \/ ExpandConcept(ExpandOfShape("pure")) /\ Within(MaxCounter)
    \/ \E n \in BranchNumbers : ProcessAddIdeaRequest(n)
    \/ ProcessUserIdea(AuthorOfShape("pure")) /\ Within(MaxCounter)
    \/ \E n \in BranchNumbers : ProcessDeleteRequest(n)
    \/ \E c \in Confirmations : ProcessDeletionConfirmation(c)
    \/ \E ids \in CallCombineArgs :
           ProcessCombineRequest(ids, CombineOfShape("pure")) /\ Within(MaxCounter)
    \/ EnsureCategories
    \/ \E c \in Confirmations : ConfirmationWithoutRequest(c)
    \/ PresentAgain

SpecCalls == Init /\ [][NextCalls]_vars

(***************************************************************************)
(* The session that harvests the three methodology threads, answered by    *)
(* replies whose sections come in another order than the thread's          *)
(***************************************************************************)
MaxHarvestCounter == 6

\* a record of a harvest reply, told apart by its heading
HarvestItem(h) ==
    [heading |-> <<h>>, explanation |-> <<"E">>, productDirection |-> <<"P">>]

\* the sections of thread_1, the last one first
ScrambledSeeds ==
    Reply("pure", "object",
          <<Section("delightfulSubversion", <<HarvestItem("d1")>>),
            Section("emotionalSeeds", <<HarvestItem("e1"), HarvestItem("e2")>>),
            Section("habitHeuristicAlignment", <<HarvestItem("h1")>>)>>, <<>>)
\* the sections of thread_2, the last one first
ScrambledBridges ==
    Reply("pure", "object",
          <<Section("broaderDomains", <<HarvestItem("x1")>>),
            Section("attributeBasedBridging", <<HarvestItem("a1"), HarvestItem("a2")>>)>>,
          <<>>)
\* the array of thread_3; the second record has no heading
FeedbackArray ==
    Reply("pure", "array", <<>>,
          <<HarvestItem("u1") @@ [userProfile |-> <<"U">>], ItemNoHeading>>)

OrderedHarvestReplies == {ScrambledSeeds, ScrambledBridges, FeedbackArray}
HarvestChoices == {[kind |-> "index", n |-> n] : n \in 1..3}

NextHarvest ==
    \/ GenerateStatements(TRUE, "ok")
    \/ ProcessUserChoice("1")
    \/ PresentExplorationOptions
    \/ DisplayFeedback
    \/ \E choice \in HarvestChoices : ProcessThreadChoiceMulti(choice)
    \/ \E resp \in OrderedHarvestReplies :
           ThreadExploration(resp) /\ Within(MaxHarvestCounter)

SpecHarvest == Init /\ [][NextHarvest]_vars

(***************************************************************************)
(* The session as the commands reach it: integers inside and outside the   *)
(* listed range, ids that are and are not registered                       *)
(***************************************************************************)
MaxCommandCounter == 3

\* the integers entered: none listed at 0 and 6, a combined thread at 4 and 5
EnteredIndices == {0, 1, 3, 4, 5, 6}
IndexChoices == {[kind |-> "index", n |-> n] : n \in EnteredIndices}
\* the branch numbers entered: one more than can be registered
EnteredBranchNumbers == 1..(MaxCommandCounter + 1)

NextCommands ==
    \/ GenerateStatements(TRUE, "ok")
    \/ ProcessUserChoice("1")
    \/ PresentExplorationOptions
    \/ DisplayFeedback
    \/ \E choice \in IndexChoices : ProcessThreadChoiceMulti(choice)
    \/ ThreadExploration(HarvestOfShape("pure")) /\ Within(MaxCommandCounter)
    \/ \E n \in EnteredBranchNumbers : ProcessBranchSelection(n)
    \/ ProcessConceptInput
    \/ ExpandConcept(ExpandOfShape("pure")) /\ Within(MaxCommandCounter)
    \/ \E n \in EnteredBranchNumbers : ProcessAddIdeaRequest(n)
    \/ ProcessUserIdea(AuthorOfShape("pure")) /\ Within(MaxCommandCounter)
    \/ \E n \in EnteredBranchNumbers : ProcessDeleteRequest(n)
    \/ \E c \in {"yes", "no"} : ProcessDeletionConfirmation(c)
    \/ \E ids \in CallCombineArgs :
           ProcessCombineRequest(ids, CombineOfShape("pure"))
           /\ Within(MaxCommandCounter)
    \/ EndSession
    \/ ProcessThreadChoiceMulti(StopChoice)
    \/ EndSessionNode

SpecCommands == Init /\ [][NextCommands]_vars

(***************************************************************************)
(* The session as run_cli_workflow reads it: every command is a text       *)
(***************************************************************************)
MaxTextCounter == 3

\* the texts entered: the empty text, "e", "xyz", "bx", and the commands
\* 1, 9, b1, delete b1, add idea b1, combine b1 b1 and stop, in lower case
\* and with capitals and blanks around them
EnteredTexts ==
    { <<>>,
      <<"e">>,
      <<"x", "y", "z">>,
      <<"b", "x">>,
      <<"1">>,
      <<" ", "1", " ">>,
      <<"9">>,
      <<"b", "1">>,
      <<" ", "b", "1">>,
      <<"B", "1", " ">>,
      <<"d", "e", "l", "e", "t", "e", " ", "b", "1">>,
      <<" ", "D", "E", "L", "E", "T", "E", " ", "b", "1", " ">>,
      <<"a", "d", "d", " ", "i", "d", "e", "a", " ", "b", "1">>,
      <<"A", "d", "d", " ", "I", "d", "e", "a", " ", "b", "1", " ">>,
      <<"c", "o", "m", "b", "i", "n", "e", " ", "b", "1", " ", "b", "1">>,
      <<" ", "C", "o", "m", "b", "i", "n", "e", " ", "B", "1", " ", "b", "1">>,
      <<"s", "t", "o", "p">>,
      <<" ", "S", "T", "O", "P">> }

\* a handler that found no command in the text: only the feedback is set
InvalidFormat ==
    /\ cli = "top"
    /\ cli' = "top"
    /\ feedback' = "Invalid format."
    /\ removed' = {}
    /\ llm_called' = FALSE
    /\ UNCHANGED <<final_problem_statement, current_step, graph, active, pending,
                   switch_thread, probe, mindmap_name, scraper>>

\* process_branch_selection on a text without b<n>, and the guidance prompt
\* of run_cli_workflow when a selection is still waiting for it
InvalidBranchFormat ==
    /\ cli = "top"
    /\ cli' = (IF awaiting_concept_input THEN "concept_input" ELSE "top")
    /\ feedback' = "Invalid branch selection format."
    /\ removed' = {}
    /\ llm_called' = FALSE
    /\ UNCHANGED <<final_problem_statement, current_step, graph, active, pending,
                   switch_thread, probe, mindmap_name, scraper>>

\* process_branch_selection on a text without b<n>, reached through
\* process_thread_choice_multi
InvalidBranchChoice ==
    /\ cli = "top"
    /\ cli' = "top"
    /\ feedback' = "Invalid branch selection format."
    /\ switch_thread' = FALSE
    /\ removed' = {}
    /\ llm_called' = FALSE
    /\ UNCHANGED <<final_problem_statement, current_step, graph, active, pending,
                   probe, mindmap_name, scraper>>

\* the last branch of the loop of run_cli_workflow: process_thread_choice_multi
\* on a text that holds no combine, delete or add idea
ThreadCommand(choice) ==
    LET stripped == strip(lower(choice))
    IN  IF stripped # StopWord /\ startswith(stripped, <<"b">>)
        THEN IF BranchMatch(stripped) = NoMatch THEN InvalidBranchChoice
             ELSE SelectionByThreadChoice(BranchMatch(stripped))
        ELSE ProcessThreadChoiceMulti(ThreadChoiceOf(choice))

\* one pass of the loop of run_cli_workflow on the text read from the user
EnterCommand(text) ==
    LET user_choice == lower(text)
    IN  IF strip(user_choice) = StopWord THEN EndSession
        ELSE IF In(CombineWord, user_choice)
        THEN ProcessCombineRequest(CombineIds(user_choice), CombineOfShape("pure"))
        ELSE IF In(DeleteWord, user_choice)
        THEN IF SearchRequest(DeleteWord, user_choice) = NoMatch THEN InvalidFormat
             ELSE ProcessDeleteRequest(SearchRequest(DeleteWord, user_choice))
        ELSE IF In(AddIdeaWord, user_choice)
        THEN IF SearchRequest(AddIdeaWord, user_choice) = NoMatch THEN InvalidFormat
             ELSE ProcessAddIdeaRequest(SearchRequest(AddIdeaWord, user_choice))
        ELSE IF startswith(user_choice, <<"b">>)
        THEN IF BranchMatch(strip(user_choice)) = NoMatch THEN InvalidBranchFormat
             ELSE ProcessBranchSelection(BranchMatch(strip(user_choice)))
        ELSE ThreadCommand(user_choice)

NextTexts ==
    \/ GenerateStatements(TRUE, "ok")
    \/ ProcessUserChoice("1")
    \/ PresentExplorationOptions
    \/ DisplayFeedback
    \/ \E text \in EnteredTexts : EnterCommand(text) /\ Within(MaxTextCounter)
    \/ ThreadExploration(HarvestOfShape("pure")) /\ Within(MaxTextCounter)
    \/ ProcessConceptInput
    \/ ExpandConcept(ExpandOfShape("pure")) /\ Within(MaxTextCounter)
    \/ ProcessUserIdea(AuthorOfShape("pure")) /\ Within(MaxTextCounter)
    \/ \E c \in {"yes", "no"} : ProcessDeletionConfirmation(c)

SpecTexts == Init /\ [][NextTexts]_vars

(***************************************************************************)
(* The session with every answer of the statement phase                    *)
(***************************************************************************)
MaxStatementCounter == 2

\* the answers to the two statements: either one, a regeneration of either
\* one, and a text that names none
StatementChoices == {"1", "2", "r1", "r2", "neither"}

NextStatement ==
    \/ \E ok1 \in BOOLEAN : \E out2 \in Outcomes2 : GenerateStatements(ok1, out2)
    \/ \E choice \in StatementChoices : ProcessUserChoice(choice)
    \/ PresentExplorationOptions
    \/ PresentAgain
    \/ DisplayFeedback
    \/ \E choice \in HarvestChoices : ProcessThreadChoiceMulti(choice)
    \/ ThreadExploration(HarvestOfShape("pure")) /\ Within(MaxStatementCounter)
    \/ \E ids \in CallCombineArgs :
           ProcessCombineRequest(ids, CombineOfShape("pure"))
           /\ Within(MaxStatementCounter)
    \/ EndSession

SpecStatement == Init /\ [][NextStatement]_vars

(***************************************************************************)
(* The session with combinations whose products record their sources: the  *)
(* reply declares sourceConcepts, or it carries no JSON and the fallback    *)
(* concept of combine_concepts takes the ids of the command                 *)
(***************************************************************************)
MaxSourceCounter == 3

SourcedCombineReplies ==
    { Reply("pure", "array", <<>>, <<ProductDeclared, ProductPlain>>), Prose }

SourceBranchNumbers == 1..MaxSourceCounter

NextSources ==
    \/ GenerateStatements(TRUE, "ok")
    \/ ProcessUserChoice("1")
    \/ PresentExplorationOptions
    \/ DisplayFeedback
    \/ ProcessThreadChoiceMulti([kind |-> "index", n |-> 1])
    \/ ThreadExploration(HarvestOfShape("pure")) /\ Within(MaxSourceCounter)
    \/ \E n \in SourceBranchNumbers : ProcessDeleteRequest(n)
    \/ \E c \in {"yes", "no"} : ProcessDeletionConfirmation(c)
    \/ \E n \in SourceBranchNumbers : \E resp \in SourcedCombineReplies :
           ProcessCombineRequest(<<1, n>>, resp) /\ Within(MaxSourceCounter)

SpecSources == Init /\ [][NextSources]_vars

(***************************************************************************)
(* YCBulkScraper.scrape_all: the main thread, the workers that drain the   *)
(* queue, and the two locks.  threading.Lock is not reentrant: acquire     *)
(* blocks while any thread, the caller included, holds the lock.           *)
(***************************************************************************)
ideation == <<current_step, final_problem_statement, threads, branches,
              branch_counter, active_thread, active_branch, mindmap,
              awaiting_concept_input, concept_expansion_context,
              awaiting_idea_input, idea_input_context,
              awaiting_deletion_confirmation, deletion_context,
              switch_thread, feedback, cli, llm_called, issued, removed,
              probe, mindmap_name>>

\* the numbers of URLs collected: fewer than one checkpoint interval, and
\* one more than an interval
Totals == {3, CHECKPOINT_INTERVAL + 1}
\* the URLs whose scrape raises
FailingSets == {{}, {2}}

InitScrape ==
    /\ current_step = "initial_input"
    /\ final_problem_statement = ""
    /\ threads = <<>>
    /\ branches = EmptyDict
    /\ branch_counter = 0
    /\ active_thread = NoThread
    /\ active_branch = None
    /\ mindmap = EmptyDict
    /\ awaiting_concept_input = FALSE
    /\ concept_expansion_context = None
    /\ awaiting_idea_input = FALSE
    /\ idea_input_context = None
    /\ awaiting_deletion_confirmation = FALSE
    /\ deletion_context = NoDeletion
    /\ switch_thread = FALSE
    /\ feedback = ""
    /\ cli = "generate"
    /\ llm_called = FALSE
    /\ issued = <<>>
    /\ removed = {}
    /\ probe = NoProbe
    /\ mindmap_name = NoMindmap
    /\ \E total \in Totals : \E failing \in FailingSets :
           scraper = YCBulkScraper([k \in 1..total |-> k], failing)

Min(a, b) == IF a < b THEN a ELSE b

\* q.task_done(): one unfinished task less; the count per URL is kept to
\* tell how often each URL was marked
TaskDone(s, u) ==
    [s EXCEPT !.unfinished_tasks = @ - 1,
              !.task_done = (u :> (Get(@, u, 0) + 1)) @@ @]

\* scrape_all up to "for t in ths: t.start()"
StartWorkers ==
    /\ scraper.main = "scrape_all"
    /\ LET to == SelectSeq(scraper.company_urls,
                           LAMBDA u : u \notin scraper.processed_urls)
           total == Len(to)
       IN  scraper' = [scraper EXCEPT
                !.q = to,
                !.unfinished_tasks = total,
                !.pc = [i \in Workers |->
                           IF i <= Min(NumThreads, total) THEN "get"
                           ELSE "not started"],
                !.main = "poll"]
    /\ UNCHANGED ideation

\* worker: url = q.get_nowait(); Empty ends the loop; a URL that is already
\* processed is marked done at once
WorkerGet(i) ==
    /\ scraper.pc[i] = "get"
    /\ scraper' =
          IF scraper.q = <<>> THEN [scraper EXCEPT !.pc[i] = "done"]
          ELSE LET u == Head(scraper.q)
                   s1 == [scraper EXCEPT !.q = Tail(@)]
               IN  IF u \in scraper.processed_urls THEN TaskDone(s1, u)
                   ELSE [s1 EXCEPT !.url[i] = u, !.pc[i] = "scrape"]
    /\ UNCHANGED ideation

\* worker: detail = self.scrape_detail(drv, url); an exception goes to the
\* except branch and on to finally
WorkerScrape(i) ==
    /\ scraper.pc[i] = "scrape"
    /\ scraper' = [scraper EXCEPT
            !.pc[i] = IF scraper.url[i] \in scraper.failing THEN "task_done"
                      ELSE "file_lock"]
    /\ UNCHANGED ideation

\* worker: with self.file_lock
WorkerFileLock(i) ==
    /\ scraper.pc[i] = "file_lock"
    /\ scraper.file_lock = Unlocked
    /\ scraper' = [scraper EXCEPT !.file_lock = Worker(i), !.pc[i] = "write"]
    /\ UNCHANGED ideation

\* worker: f.write(...), and the end of the with block
WorkerWrite(i) ==
    /\ scraper.pc[i] = "write"
    /\ scraper' = [scraper EXCEPT !.file_lock = Unlocked,
                                  !.pc[i] = "checkpoint_lock"]
    /\ UNCHANGED ideation

\* worker: with self.checkpoint_lock
WorkerCheckpointLock(i) ==
    /\ scraper.pc[i] = "checkpoint_lock"
    /\ scraper.checkpoint_lock = Unlocked
    /\ scraper' = [scraper EXCEPT !.checkpoint_lock = Worker(i),
                                  !.pc[i] = "count"]
    /\ UNCHANGED ideation

\* worker: processed_urls.add(url); progress += 1; at a multiple of
\* CHECKPOINT_INTERVAL _save_checkpoint is called inside the with block,
\* otherwise the block ends and the lock is released
WorkerCount(i) ==
    /\ scraper.pc[i] = "count"
    /\ LET progress == scraper.progress + 1
           s1 == [scraper EXCEPT !.processed_urls = @ \cup {scraper.url[i]},
                                 !.progress = progress]
       IN  scraper' =
              IF progress % CHECKPOINT_INTERVAL = 0
              THEN [s1 EXCEPT !.pc[i] = "_save_checkpoint"]
              ELSE [s1 EXCEPT !.checkpoint_lock = Unlocked,
                              !.pc[i] = "task_done"]
    /\ UNCHANGED ideation

\* where the thread is in its code
At(th) == IF th = MainThread THEN scraper.main ELSE scraper.pc[th[2]]
Goto(s, th, label) ==
    IF th = MainThread THEN [s EXCEPT !.main = label]
    ELSE [s EXCEPT !.pc[th[2]] = label]

ScraperThreads == {MainThread} \cup {Worker(i) : i \in Workers}

\* _save_checkpoint: with self.checkpoint_lock
SaveCheckpointLock(th) ==
    /\ At(th) = "_save_checkpoint"
    /\ scraper.checkpoint_lock = Unlocked
    /\ scraper' = Goto([scraper EXCEPT !.checkpoint_lock = th], th, "dump")
    /\ UNCHANGED ideation

\* _save_checkpoint: the file is written and the with block ends; the
\* worker goes on to finally, scrape_all returns
SaveCheckpointDump(th) ==
    /\ At(th) = "dump"
    /\ scraper' = Goto([scraper EXCEPT !.checkpoint_lock = Unlocked], th,
                       IF th = MainThread THEN "returned" ELSE "task_done")
    /\ UNCHANGED ideation

\* worker: finally: q.task_done()
WorkerTaskDone(i) ==
    /\ scraper.pc[i] = "task_done"
    /\ scraper' = [TaskDone(scraper, scraper.url[i]) EXCEPT
                       !.url[i] = None, !.pc[i] = "get"]
    /\ UNCHANGED ideation

\* scrape_all: while q.qsize(): sleep
QueueDrained ==
    /\ scraper.main = "poll"
    /\ scraper.q = <<>>
    /\ scraper' = [scraper EXCEPT !.main = "q.join"]
    /\ UNCHANGED ideation

\* scrape_all: q.join() returns when no task is unfinished
QueueJoined ==
    /\ scraper.main = "q.join"
    /\ scraper.unfinished_tasks = 0
    /\ scraper' = [scraper EXCEPT !.main = "t.join"]
    /\ UNCHANGED ideation

\* scrape_all: for t in ths: t.join(), then self._save_checkpoint()
ThreadsJoined ==
    /\ scraper.main = "t.join"
    /\ \A i \in Workers : scraper.pc[i] \in {"not started", "done"}
    /\ scraper' = [scraper EXCEPT !.main = "_save_checkpoint"]
    /\ UNCHANGED ideation

WorkerStep(i) ==
    \/ WorkerGet(i)
    \/ WorkerScrape(i)
    \/ WorkerFileLock(i)
    \/ WorkerWrite(i)
    \/ WorkerCheckpointLock(i)
    \/ WorkerCount(i)
    \/ SaveCheckpointLock(Worker(i))
    \/ SaveCheckpointDump(Worker(i))
    \/ WorkerTaskDone(i)

MainStep ==
    \/ StartWorkers
    \/ QueueDrained
    \/ QueueJoined
    \/ ThreadsJoined
    \/ SaveCheckpointLock(MainThread)
    \/ SaveCheckpointDump(MainThread)

NextScrape ==
    \/ StartWorkers
    \/ \E i \in Workers : WorkerGet(i)
    \/ \E i \in Workers : WorkerScrape(i)
    \/ \E i \in Workers : WorkerFileLock(i)
    \/ \E i \in Workers : WorkerWrite(i)
    \/ \E i \in Workers : WorkerCheckpointLock(i)
    \/ \E i \in Workers : WorkerCount(i)
    \/ \E th \in ScraperThreads : SaveCheckpointLock(th)
    \/ \E th \in ScraperThreads : SaveCheckpointDump(th)
    \/ \E i \in Workers : WorkerTaskDone(i)
    \/ QueueDrained
    \/ QueueJoined
    \/ ThreadsJoined

SpecScrape == InitScrape /\ [][NextScrape]_vars

\* every thread that can take a step is scheduled again
SpecScrapeFair ==
    /\ SpecScrape
    /\ WF_vars(MainStep)
    /\ \A i \in Workers : WF_vars(WorkerStep(i))

(***************************************************************************)
(* The normalizers on their own: a partial record is handed to one of      *)
(* them, and what it returns is handed to it again                         *)
(***************************************************************************)
\* a field that may be missing, or present with one of the values
Options(k, values) == {EmptyDict} \cup {k :> v : v \in values}

\* the records handed to the normalizers: every subset of the ten fields,
\* strings that are empty, plain or carry a separator phrase, values that
\* are not strings, lists that are empty or not lists
PartialRecords ==
    {h @@ e @@ pd @@ c @@ u @@ s @@ de @@ f @@ fl @@ sc :
        h \in Options("heading", {<<"H">>}),
        e \in Options("explanation", {<<"E">>, JNumber}),
        pd \in Options("productDirection", {<<"P">>, <<>>, JNumber}),
        c \in Options("content", {<<"C">>, <<"C", "Product direction:", "D">>,
                                  <<"User:", "U", "<newline>", "C">>, JNumber}),
        u \in Options("userProfile", {<<"U">>}),
        s \in Options("source", {<<"imaginaryFeedback">>}),
        de \in Options("description", {<<"D">>}),
        f \in Options("features", {<<<<"F">>>>, <<>>}),
        fl \in Options("featureLists", {<<<<"G">>>>, NotAList}),
        sc \in Options("sourceConcepts", {<<<<"S">>>>})}

\* what a call of a normalizer comes to: the payload, or an exception
Returned(payload) == [raised |-> FALSE, payload |-> payload]
Raised == [raised |-> TRUE]

CallConcept(d) ==
    IF StdConceptRaises(d) THEN Raised
    ELSE Returned(standardize_concept_branch_data(d))
\* no statement of standardize_product_branch_data raises on a dict
CallProduct(d) == Returned(standardize_product_branch_data(d))
Call(normalizer, d) ==
    IF normalizer = "concept" THEN CallConcept(d) ELSE CallProduct(d)

InitNormalize ==
    /\ current_step = "initial_input"
    /\ final_problem_statement = ""
    /\ threads = <<>>
    /\ branches = EmptyDict
    /\ branch_counter = 0
    /\ active_thread = NoThread
    /\ active_branch = None
    /\ mindmap = EmptyDict
    /\ awaiting_concept_input = FALSE
    /\ concept_expansion_context = None
    /\ awaiting_idea_input = FALSE
    /\ idea_input_context = None
    /\ awaiting_deletion_confirmation = FALSE
    /\ deletion_context = NoDeletion
    /\ switch_thread = FALSE
    /\ feedback = ""
    /\ cli = "generate"
    /\ llm_called = FALSE
    /\ issued = <<>>
    /\ removed = {}
    /\ mindmap_name = NoMindmap
    /\ scraper = YCBulkScraper(<<>>, {})
    /\ probe \in {[stage |-> "input", input |-> d] : d \in PartialRecords}

session == <<current_step, final_problem_statement, threads, branches,
             branch_counter, active_thread, active_branch, mindmap,
             awaiting_concept_input, concept_expansion_context,
             awaiting_idea_input, idea_input_context,
             awaiting_deletion_confirmation, deletion_context,
             switch_thread, feedback, cli, llm_called, issued, removed,
             mindmap_name, scraper>>

\* standardized = standardize_..._branch_data(record)
Normalize(normalizer) ==
    /\ probe.stage = "input"
    /\ probe' = [stage |-> "once", normalizer |-> normalizer,
                 input |-> probe.input, once |-> Call(normalizer, probe.input)]
    /\ UNCHANGED session

\* the returned payload is handed to the same normalizer
NormalizeAgain ==
    /\ probe.stage = "once"
    /\ ~probe.once.raised
    /\ probe' = [stage |-> "twice", normalizer |-> probe.normalizer,
                 input |-> probe.input, once |-> probe.once,
                 twice |-> Call(probe.normalizer, probe.once.payload)]
    /\ UNCHANGED session

NextNormalize ==
    \/ Normalize("concept")
    \/ Normalize("product")
    \/ NormalizeAgain

SpecNormalize == InitNormalize /\ [][NextNormalize]_vars

(***************************************************************************)
(* Properties of the branch store                                          *)
(***************************************************************************)
NoRepeats(seq) == \A i, j \in DOMAIN seq : i # j => seq[i] # seq[j]
Gone == Range(issued) \ DOMAIN branches

\* the branch ids met by walking the mindmap below a node
MindmapIds(mm, node) == {x[2] : x \in MMSubtree(mm, node) \ {node}}
\* the mindmap children a branch's own children list calls for
ChildNodes(b) == [k \in DOMAIN b.children |-> BNode(b.children[k])]

\* C1: in every step, each branch added to the registry gets an id that
\* was never handed out before (the ids handed out never repeat, also past
\* deletions and wipes), and branch_counter does not decrease.
C1_FreshIds ==
    [][/\ \A n \in (DOMAIN branches') \ (DOMAIN branches) : n \notin Range(issued)
       /\ (DOMAIN branches') \subseteq Range(issued')
       /\ NoRepeats(issued')
       /\ branch_counter' >= branch_counter]_vars

\* C1 witness: every id has been handed out, an earlier branch is gone and
\* a branch created with a later id is registered.
C1_CreatedPastRemoval ==
    /\ Len(issued) = MaxCounter
    /\ \E n \in Gone : \E m \in DOMAIN branches : m > n

\* C2: for every thread, the ids met by walking the mindmap below the
\* thread's node are exactly the registered branches of that thread, at
\* every depth, and each branch's node lists the branch's children in order.
C2_MindmapMirrorsThreads ==
    \A i \in DOMAIN threads :
        LET t == threads[i].id
        IN  /\ MindmapIds(mindmap, t) = BranchesOfThread(branches, t)
            /\ \A n \in BranchesOfThread(branches, t) :
                   BNode(n) \in DOMAIN mindmap
                   => mindmap[BNode(n)] = ChildNodes(branches[n])

\* C3: for every thread, the keys of the thread's own branch map are
\* exactly the registered branches whose thread_id is that thread.
C3_ThreadMapsMatchRegistry ==
    \A i \in DOMAIN threads :
        threads[i].branches = BranchesOfThread(branches, threads[i].id)

\* C4: for every registered branch B, the ids in B's children list are
\* exactly the registered branches whose parent_branch is B, and every
\* branch that names a parent is listed by it.
C4_ChildrenMatchParents ==
    /\ \A b \in DOMAIN branches :
           Range(branches[b].children)
               = {n \in DOMAIN branches : branches[n].parent_branch = b}
    /\ \A n \in DOMAIN branches :
           branches[n].parent_branch # None
           => /\ branches[n].parent_branch \in DOMAIN branches
              /\ n \in Range(branches[branches[n].parent_branch].children)

\* C4 witness: b1 was expanded into a child and given an authored child;
\* the expansion's child b2 has been deleted and b1 lists b3 alone.
C4_ChildDeleted ==
    /\ DOMAIN branches = {1, 3}
    /\ branches[1].children = <<3>>
    /\ branches[1].expansion_data = "data"
    /\ branches[3].source = <<"user_input">>

\* C5: every branch whose parent_branch is set names a registered branch
\* of the same thread.
C5_ParentInSameThread ==
    \A n \in DOMAIN branches :
        LET p == branches[n].parent_branch
        IN  p # None => /\ p \in DOMAIN branches
                        /\ branches[p].thread_id = branches[n].thread_id

\* C5 witness: a child branch lives under the product branch of a combined
\* thread while the first thread holds a branch of its own.
C5_ChildInCombinedThread ==
    /\ \E n \in DOMAIN branches :
           /\ branches[n].parent_branch # None
           /\ IsCombined(branches[n].thread_id)
    /\ BranchesOfThread(branches, FixedThread(1)) # {}

(***************************************************************************)
(* Properties of deletion and combination                                  *)
(***************************************************************************)
\* every branch reached from id through children lists
RECURSIVE Descendants(_, _)
Descendants(bs, id) ==
    IF id \notin DOMAIN bs THEN {}
    ELSE LET kids == Range(bs[id].children)
         IN  kids \cup UNION {Descendants(bs, k) : k \in kids}

\* no node of the mindmap is, or lists, the node of one of the ids
AbsentFromMindmap(mm, ids) ==
    \A n \in ids : /\ BNode(n) \notin DOMAIN mm
                   /\ \A node \in DOMAIN mm : BNode(n) \notin Range(mm[node])

\* C6: a confirmed delete of X leaves X and every descendant of X out of
\* the registry, of every thread's branch map and of the mindmap, and no
\* remaining branch names one of them as its parent; an id that has left
\* the registry never comes back, and selecting, deleting or adding an idea
\* to an id that is not registered changes nothing and reports that the
\* branch does not exist.
C6_CascadeDelete ==
    [][/\ \A c \in Affirmative :
              /\ cli = "confirm_deletion"
              /\ awaiting_deletion_confirmation
              /\ ProcessDeletionConfirmation(c)
              => LET X == deletion_context.branch_id
                     gone == {X} \cup Descendants(branches, X)
                 IN  /\ gone \cap DOMAIN branches' = {}
                     /\ \A i \in DOMAIN threads' : threads'[i].branches \cap gone = {}
                     /\ AbsentFromMindmap(mindmap', gone)
                     /\ \A y \in DOMAIN branches' :
                            branches'[y].parent_branch \notin gone
       /\ \A n \in Gone : n \notin DOMAIN branches'
       /\ \A n \in BranchNumbers \ DOMAIN branches :
              /\ cli = "top"
              /\ \/ ProcessBranchSelection(n)
                 \/ ProcessDeleteRequest(n)
                 \/ ProcessAddIdeaRequest(n)
              => /\ feedback' = "Branch does not exist."
                 /\ UNCHANGED <<graph, active, pending, cli>>]_vars

\* C6 witness: one confirmed delete has just removed a branch together with
\* its child and its grandchild.
C6_SubtreeRemoved ==
    /\ Cardinality(removed) = 3
    /\ feedback = "Successfully deleted branch and all its sub-branches."
    /\ branches = EmptyDict

\* C7: on a valid combine whose reply parses, the product branch made from
\* each record records the ids the command supplied, in order, when the
\* record declares no source concepts, and the declared list when it does.
C7_SourceConceptsRecorded ==
    [][\A ids \in CombineArgs, resp \in CombineReplies :
           ValidCombine(ids) /\ ParsesStripped(resp.shape)
               /\ ProcessCombineRequest(ids, resp)
           => \A k \in DOMAIN resp.items :
                  LET n == branch_counter + k
                  IN  /\ n \in DOMAIN branches'
                      /\ branches'[n].source_concepts =
                             (IF Has(resp.items[k], "sourceConcepts")
                              THEN resp.items[k].sourceConcepts ELSE ids)]_vars

\* C8: a valid combine adds, for each product it creates, a thread whose id
\* no thread had before, holding that product branch; every branch record,
\* every thread record and every mindmap node that existed before is still
\* there with the same content, the root gaining only the new thread nodes
\* after the children it had.
C8_CombineAddsFreshThreads ==
    [][\A ids \in CombineArgs, resp \in CombineReplies :
           ValidCombine(ids) /\ ProcessCombineRequest(ids, resp)
           => LET made == (DOMAIN branches') \ (DOMAIN branches)
                  fresh == ThreadIds(threads') \ ThreadIds(threads)
              IN  /\ made # {}
                  /\ Len(threads') = Len(threads) + Cardinality(made)
                  /\ Cardinality(fresh) = Cardinality(made)
                  /\ \A n \in made :
                         /\ branches'[n].category = "product"
                         /\ branches'[n].thread_id \in fresh
                         /\ GetThread(threads', branches'[n].thread_id).branches = {n}
                  /\ \A n \in DOMAIN branches :
                         n \in DOMAIN branches' /\ branches'[n] = branches[n]
                  /\ \A i \in DOMAIN threads : threads'[i] = threads[i]
                  /\ \A node \in DOMAIN mindmap :
                         /\ node \in DOMAIN mindmap'
                         /\ node # Root => mindmap'[node] = mindmap[node]
                  /\ SubSeq(mindmap'[Root], 1, Len(mindmap[Root])) = mindmap[Root]
                  /\ Range(mindmap'[Root]) \ Range(mindmap[Root]) = fresh]_vars

\* C8 witness: one combine has just made two products, each in a thread of
\* its own, next to the source branch.
C8_TwoProductThreads ==
    /\ feedback = "Successfully combined concepts."
    /\ cli = "display"
    /\ Cardinality({t \in ThreadIds(threads) : IsCombined(t)}) = 2
    /\ \E n \in DOMAIN branches : branches[n].category = "concept"

\* C9: a combine command with fewer than two ids, or with an id that is not
\* registered, sets feedback and nothing else: branches, threads, mindmap,
\* branch_counter, active_thread and active_branch keep their values and
\* the collaborator is not called.
C9_InvalidCombineOnlyReports ==
    [][\A ids \in CombineArgs :
           (Len(ids) < 2 \/ \E i \in DOMAIN ids : ids[i] \notin DOMAIN branches)
               /\ ProcessCombineRequest(ids, Prose)
           => /\ UNCHANGED <<branches, threads, mindmap, branch_counter,
                             active_thread, active_branch>>
              /\ ~llm_called'
              /\ feedback' \in {"Invalid format.",
                                "Please select at least 2 branches to combine.",
                                "Branch(es) do not exist."}]_vars

\* C9 witness: a combine naming a registered and an unregistered id has
\* just been refused.
C9_MissingIdRefused ==
    /\ feedback = "Branch(es) do not exist."
    /\ cli = "display"
    /\ 1 \in DOMAIN branches

(***************************************************************************)
(* Properties of the degraded paths                                        *)
(***************************************************************************)
Made == (DOMAIN branches') \ (DOMAIN branches)

\* the child that process_user_idea falls back to under parent
IsFallbackChild(rec, parent) ==
    /\ rec.heading = <<"User Idea">>
    /\ rec.explanation = UserIdea
    /\ rec.category = "concept"
    /\ rec.parent_branch = parent
    /\ rec.thread_id = branches[parent].thread_id

\* the product that combine_concepts falls back to, in a thread no thread had
IsFallbackProduct(rec, ids) ==
    /\ rec.heading = <<"Combined Product Idea">>
    /\ rec.category = "product"
    /\ rec.source_concepts = ids
    /\ rec.thread_id \notin ThreadIds(threads)
    /\ ThreadIds(threads') = ThreadIds(threads) \cup {rec.thread_id}

\* what a prose reply does to the number of branches, and what it reports
ProseHarvest ==
    ThreadExploration(Prose)
    => /\ Made = {} /\ mindmap' = mindmap
       /\ feedback' = "Explored, but couldn't extract structured data."
ProseExpand ==
    ExpandConcept(Prose)
    => /\ Made = {} /\ mindmap' = mindmap
       /\ feedback' = "Expanded concept, but couldn't extract structured data."
ProseAuthor ==
    ProcessUserIdea(Prose)
    => /\ Cardinality(Made) = 1
       /\ \A n \in Made : IsFallbackChild(branches'[n], idea_input_context)
       /\ feedback' =
              "Added your idea, but couldn't structure it in the standard format."
ProseCombine ==
    \A ids \in CombineArgs :
        ValidCombine(ids) /\ ProcessCombineRequest(ids, Prose)
        => /\ Cardinality(Made) = 1
           /\ \A n \in Made : IsFallbackProduct(branches'[n], ids)
           /\ Len(threads') = Len(threads) + 1
           /\ feedback' = "Created a combined concept with the generated content."

\* the step is one of the four operations, answered in prose
ProseStep ==
    \/ ThreadExploration(Prose)
    \/ ExpandConcept(Prose)
    \/ ProcessUserIdea(Prose)
    \/ \E ids \in CombineArgs : ValidCombine(ids) /\ ProcessCombineRequest(ids, Prose)

\* a registered record after author's fallback: the parent lists the new
\* child after the children it had, every other record is as it was
AfterAuthor(m) ==
    IF ProcessUserIdea(Prose) /\ m = idea_input_context
    THEN [branches[m] EXCEPT !.children = @ \o [k \in 1..1 |-> CHOOSE n \in Made : TRUE]]
    ELSE branches[m]

\* the same, with what expand's degraded path writes to its target
AfterAuthorOrExpand(m) ==
    IF ExpandConcept(Prose) /\ m = concept_expansion_context
    THEN [branches[m] EXCEPT !.expanded = TRUE, !.expansion_data = "raw"]
    ELSE AfterAuthor(m)

\* C10 as stated: on a prose reply harvest and expand add no branch, author
\* adds one fallback child (linked under its parent) and combine one
\* fallback product in one new thread, each reporting the degraded result,
\* and nothing else in the registry changes: every record registered
\* before is left as it was.
C10_ProseLeavesRecordsAlone ==
    [][/\ ProseHarvest /\ ProseExpand /\ ProseAuthor /\ ProseCombine
       /\ ProseStep => \A m \in DOMAIN branches :
                           m \in DOMAIN branches' /\ branches'[m] = AfterAuthor(m)]_vars

\* C10 amended: as above, except that expand does change one registered
\* record: it marks its target branch expanded and stores the raw reply as
\* the branch's expansion data.
C10_ProseFallbacks ==
    [][/\ ProseHarvest /\ ProseExpand /\ ProseAuthor /\ ProseCombine
       /\ ProseStep => \A m \in DOMAIN branches :
                           /\ m \in DOMAIN branches'
                           /\ branches'[m] = AfterAuthorOrExpand(m)]_vars

\* C10 witness: b1 was harvested, its expansion was answered in prose, a
\* combine answered in prose made the fallback product b2, and the idea
\* added under b1, answered in prose, has just become the fallback child b3.
C10_AllFallbacksTaken ==
    /\ feedback = "Added your idea, but couldn't structure it in the standard format."
    /\ DOMAIN branches = {1, 2, 3}
    /\ branches[1].expansion_data = "raw"
    /\ branches[2].heading = <<"Combined Product Idea">>
    /\ branches[3].heading = <<"User Idea">>
    /\ branches[1].children = <<3>>

(***************************************************************************)
(* Properties of the replies with several records and of the parsers       *)
(***************************************************************************)
\* the step is a harvest, expand, author or combine that reports a degraded
\* or fallback result
DegradedHarvest ==
    cli = "explore" /\ feedback' = "Explored, but couldn't extract structured data."
DegradedExpand ==
    cli = "expand" /\ feedback' = "Expanded concept, but couldn't extract structured data."
DegradedAuthor ==
    /\ cli = "idea_input"
    /\ feedback' = "Added your idea, but couldn't structure it in the standard format."
DegradedCombine ==
    cli = "top" /\ feedback' = "Created a combined concept with the generated content."

\* C11: harvest, expand, author and combine are all-or-nothing.  A step that
\* reports the degraded result has created nothing (harvest, expand) or the
\* single fallback branch only (author; combine, in one new thread), with
\* the mindmap as it was or holding the fallback alone; a step that reports
\* success has created one branch for every record of the reply.
C11_AllOrNothing ==
    [][/\ DegradedHarvest \/ DegradedExpand => Made = {} /\ mindmap' = mindmap
       /\ DegradedAuthor => Cardinality(Made) = 1
       /\ DegradedCombine => /\ Cardinality(Made) = 1
                             /\ Len(threads') = Len(threads) + 1
                             /\ Cardinality(DOMAIN mindmap') = Cardinality(DOMAIN mindmap) + 2
       /\ \A resp \in ShapedExpandReplies :
              ExpandConcept(resp) /\ ~DegradedExpand
              => Cardinality(Made) = Len(resp.items)
       /\ \A resp \in ShapedCombineReplies : \A ids \in ReplyCombineArgs :
              ValidCombine(ids) /\ ProcessCombineRequest(ids, resp) /\ ~DegradedCombine
              => Cardinality(Made) = Len(resp.items)]_vars

\* the step reports that structured data was extracted
ExtractedByHarvest == feedback' = "Successfully explored and captured structured data."
ExtractedByExpand ==
    feedback' = "Successfully expanded concept and created sub-branches."
ExtractedByAuthor == feedback' = "Successfully added your idea."
ExtractedByCombine == feedback' = "Successfully combined concepts."

\* C12: the four operations apply one parsing chain.  For every shape of
\* reply (pure JSON, fenced JSON, JSON inside prose, prose only), an expand,
\* author or combine step answered in that shape extracts structured data
\* exactly when harvest's parser extracts it from that shape, and a harvest
\* step exactly when the parser of the other three does.
C12_SameParsingChain ==
    [][\A shape \in Shapes :
          /\ ThreadExploration(HarvestOfShape(shape))
             => (ExtractedByHarvest <=> ParsesStripped(shape))
          /\ ExpandConcept(ExpandOfShape(shape))
             => (ExtractedByExpand <=> ParsesWithRegex(shape))
          /\ ProcessUserIdea(AuthorOfShape(shape))
             => (ExtractedByAuthor <=> ParsesWithRegex(shape))
          /\ \A ids \in ReplyCombineArgs :
                 ValidCombine(ids) /\ ProcessCombineRequest(ids, CombineOfShape(shape))
                 => (ExtractedByCombine <=> ParsesWithRegex(shape))]_vars

(***************************************************************************)
(* Properties of the handlers called directly                              *)
(***************************************************************************)
\* a step of process_deletion_confirmation, however it was called
ConfirmationStep(c) == ProcessDeletionConfirmation(c) \/ ConfirmationWithoutRequest(c)

\* C13: deletion takes two steps.  A delete request for a registered branch
\* removes nothing and records the pending deletion: the branch id, its
\* heading and the number of its descendants.  A confirmation removes
\* branches only while a deletion is pending and only for yes, y, confirm
\* or delete; any other reply leaves the registry, the thread maps and the
\* mindmap as they were; either way the pending deletion is cleared.  A
\* confirmation with no pending deletion changes nothing but the feedback.
C13_TwoStepDeletion ==
    [][/\ \A n \in DOMAIN branches :
              ProcessDeleteRequest(n)
              => /\ UNCHANGED <<branches, threads, mindmap, branch_counter>>
                 /\ awaiting_deletion_confirmation'
                 /\ deletion_context' =
                        [branch_id |-> n, branch_heading |-> branches[n].heading,
                         children_count |-> Cardinality(Descendants(branches, n))]
       /\ \A c \in Confirmations :
              ConfirmationStep(c)
              => /\ awaiting_deletion_confirmation
                    => /\ ~awaiting_deletion_confirmation'
                       /\ deletion_context' = NoDeletion
                 /\ ~awaiting_deletion_confirmation
                    => UNCHANGED <<branches, threads, mindmap, branch_counter,
                                   active, pending, current_step>>
                 /\ c \notin {"yes", "y", "confirm", "delete"}
                    => UNCHANGED <<branches, threads, mindmap, branch_counter>>
       /\ DOMAIN branches' # DOMAIN branches /\ cli \in {"confirm_deletion"}
          => /\ awaiting_deletion_confirmation
             /\ removed' = DOMAIN branches \ DOMAIN branches'
             /\ deletion_context.branch_id \in removed'
       /\ removed' # {} => cli = "confirm_deletion" /\ awaiting_deletion_confirmation]_vars

\* C13 witness: the deletion of a branch that has a child was requested and
\* has just been declined; the branch and its child are still registered.
C13_DeletionDeclined ==
    /\ feedback = "Branch deletion cancelled."
    /\ deletion_context = NoDeletion
    /\ ~awaiting_deletion_confirmation
    /\ \E n \in DOMAIN branches :
           /\ branches[n].children # <<>>
           /\ \E k \in Range(branches[n].children) :
                  k \in DOMAIN branches /\ branches[k].children # <<>>

(***************************************************************************)
(* Properties of the normalizers                                           *)
(***************************************************************************)
\* C14: normalization is idempotent.  Whatever partial record a normalizer
\* was given, handing it the payload it returned gives that payload back.
C14_Idempotent ==
    probe.stage = "twice"
    => /\ ~probe.twice.raised
       /\ probe.twice.payload = probe.once.payload

\* C14 witness: the concept normalizer was given a record without an
\* explanation whose content carries a separator phrase and a user line,
\* and has been applied to its own result.
C14_NormalizedTwice ==
    /\ probe.stage = "twice"
    /\ probe.normalizer = "concept"
    /\ ~Has(probe.input, "explanation")
    /\ Has(probe.input, "content")
    /\ FoundPatterns(probe.input.content) # {}
    /\ Has(probe.once.payload, "userProfile")
    /\ Truthy(probe.once.payload.userProfile)

\* the fields every payload of the category carries
RequiredFields(normalizer) ==
    IF normalizer = "concept"
    THEN {"heading", "explanation", "productDirection", "category", "content"}
    ELSE {"heading", "description", "features", "sourceConcepts", "category"}

\* C15: the normalizers never raise.  For every record, also one whose
\* content, explanation or productDirection is present but not a string,
\* the call returns a payload with every required field, the features list
\* not empty.
C15_NeverRaises ==
    probe.stage \in {"once", "twice"}
    => /\ ~probe.once.raised
       /\ RequiredFields(probe.normalizer) \subseteq DOMAIN probe.once.payload
       /\ probe.normalizer = "product" => probe.once.payload.features # <<>>

(***************************************************************************)
(* Properties of the categories                                            *)
(***************************************************************************)
\* C16: every branch carries only the payload fields of its category.  A
\* concept branch has no description and no features; a product branch has
\* no explanation and no productDirection; also after
\* ensure_categories_in_branches on a state with both kinds.
C16_FieldsMatchCategory ==
    \A n \in DOMAIN branches :
        /\ branches[n].category = "concept"
           => ~Has(branches[n], "description") /\ ~Has(branches[n], "features")
        /\ branches[n].category = "product"
           => ~Has(branches[n], "explanation") /\ ~Has(branches[n], "productDirection")

\* C17: the category of a branch is fixed at creation.  No step changes the
\* category of a branch that stays in the registry.
C17_CategoryFixed ==
    [][\A n \in DOMAIN branches \cap DOMAIN branches' :
           branches'[n].category = branches[n].category]_vars

(***************************************************************************)
(* Properties of removal                                                   *)
(***************************************************************************)
\* the branches a step takes out of the registry
Leaving == (DOMAIN branches) \ (DOMAIN branches')

\* the step is a confirmed deletion and takes out nothing but the branch
\* named in the request and its descendants
LeftByConfirmedDelete ==
    /\ cli = "confirm_deletion"
    /\ awaiting_deletion_confirmation
    /\ Leaving \subseteq {deletion_context.branch_id}
                         \cup Descendants(branches, deletion_context.branch_id)

\* the step selects the active, already explored methodology thread again
\* and takes out the branches of that thread
LeftByReselection ==
    /\ cli = "top"
    /\ active_thread' = active_thread
    /\ ~IsCombined(active_thread)
    /\ active_thread \in ThreadIds(threads)
    /\ GetThread(threads, active_thread).messages > 1
    /\ Leaving = {n \in DOMAIN branches : branches[n].thread_id = active_thread}

\* C18 as stated: a branch leaves the registry only through a confirmed
\* delete of itself or of one of its ancestors; no other command removes one.
C18_OnlyDeleteRemoves ==
    [][Leaving # {} => LeftByConfirmedDelete]_vars

\* C18: a branch leaves the registry only through a confirmed delete of
\* itself or of one of its ancestors, or when its thread, a methodology
\* thread that is active and already explored, is selected again, which
\* takes out every branch of that thread.
C18_DeleteOrReselection ==
    [][Leaving # {} => LeftByConfirmedDelete \/ LeftByReselection]_vars

\* C18 witness: the active methodology thread was selected again after
\* branches had been made in it; none of them is left, while a product
\* branch of a combined thread is still registered.
C18_ThreadRegenerated ==
    /\ cli = "explore"
    /\ removed = {}
    /\ ~IsCombined(active_thread)
    /\ active_thread \in ThreadIds(threads)
    /\ GetThread(threads, active_thread).messages > 1
    /\ GetThread(threads, active_thread).branches = {}
    /\ DOMAIN branches # {}
    /\ \A n \in DOMAIN branches : IsCombined(branches[n].thread_id)
    /\ \E i \in DOMAIN issued : issued[i] \notin DOMAIN branches

(***************************************************************************)
(* Properties of expansion                                                 *)
(***************************************************************************)
\* the replies to expand that parse to an array of concept records
RecordArrays ==
    {resp \in ShapedExpandReplies :
        /\ ParsesStripped(resp.shape)
        /\ resp.kind = "array"
        /\ resp.items # <<>>
        /\ \A i \in DOMAIN resp.items : IsRecord(resp.items[i])}

\* C19: expand_concept on a registered branch B with a reply that parses to
\* an array of k concept records creates exactly k branches, with the next
\* k ids in the order of the reply, each with parent B, B's thread and the
\* category concept and the payload of its record; their ids are appended
\* to B's children in that order and B is marked expanded.
C19_ExpandCreatesK ==
    [][\A resp \in RecordArrays :
           ExpandConcept(resp)
           => LET B == concept_expansion_context
                  k == Len(resp.items)
                  c == branch_counter
                  ids == [i \in 1..k |-> c + i]
              IN  /\ B \in DOMAIN branches
                  /\ branch_counter' = c + k
                  /\ DOMAIN branches' = DOMAIN branches \cup Range(ids)
                  /\ Range(ids) \cap DOMAIN branches = {}
                  /\ issued' = issued \o ids
                  /\ \A i \in 1..k :
                         LET new == branches'[ids[i]]
                             std == standardize_concept_branch_data(resp.items[i])
                         IN  /\ new.id = ids[i]
                             /\ new.parent_branch = B
                             /\ new.thread_id = branches[B].thread_id
                             /\ new.category = "concept"
                             /\ new.heading = std.heading
                             /\ new.explanation = std.explanation
                             /\ new.productDirection = std.productDirection
                             /\ new.children = <<>>
                  /\ branches'[B].children = branches[B].children \o ids
                  /\ branches'[B].expanded
                  /\ \A n \in DOMAIN branches \ {B} : branches'[n] = branches[n]]_vars

\* C19 witness: with the counter at 1, b1 was expanded by an array of three
\* records: b2, b3 and b4 are its children, in that order.
C19_ThreeChildren ==
    /\ feedback = "Successfully expanded concept and created sub-branches."
    /\ branch_counter = 4
    /\ issued = <<1, 2, 3, 4>>
    /\ DOMAIN branches = 1..4
    /\ branches[1].children = <<2, 3, 4>>
    /\ branches[1].expanded
    /\ \A n \in 2..4 : branches[n].parent_branch = 1
    /\ branches[3].heading = <<"Untitled Concept">>

SectionRank(source) ==
    IF source \in {<<"emotionalSeeds">>, <<"attributeBasedBridging">>,
                   <<"imaginaryFeedback">>} THEN 1
    ELSE IF source \in {<<"habitHeuristicAlignment">>, <<"broaderDomains">>} THEN 2
    ELSE 3

\* the sections the lens of a thread reads
SectionsOfLens(t) ==
    IF t = FixedThread(1)
    THEN {"emotionalSeeds", "habitHeuristicAlignment", "delightfulSubversion"}
    ELSE IF t = FixedThread(2) THEN {"attributeBasedBridging", "broaderDomains"}
    ELSE {}

\* the number of records the lens of a thread takes from a reply
Harvestable(t, resp) ==
    IF t = FixedThread(3)
    THEN (IF resp.kind = "array" THEN Len(resp.items) ELSE 0)
    ELSE LET own == SelectSeq(resp.sections, LAMBDA sec : sec.key \in SectionsOfLens(t))
             RECURSIVE total(_)
             total(secs) == IF secs = <<>> THEN 0
                            ELSE Len(Head(secs).items) + total(Tail(secs))
         IN  total(own)

\* the place of a record in its section of the reply, 0 when it is not there
PlaceInReply(t, resp, source, heading) ==
    LET items == IF t = FixedThread(3) THEN resp.items
                 ELSE SectionItems(resp, source[1])
        at == {i \in DOMAIN items : Get(items[i], "heading", <<"User <n>">>) = heading}
    IN  IF at = {} THEN 0 ELSE CHOOSE i \in at : \A j \in at : i <= j

\* C21: a harvest creates its branches section by section in the fixed
\* order of the lens and in item order within a section, whatever the order
\* of the keys in the reply: the ids grow in exactly that order, and every
\* harvested branch is a concept of the thread with no parent.
C21_HarvestInSectionOrder ==
    [][\A resp \in OrderedHarvestReplies :
           cli = "explore" /\ ThreadExploration(resp)
           => LET t == active_thread
                  new == (DOMAIN branches') \ (DOMAIN branches)
              IN  /\ new = (branch_counter + 1)..(branch_counter + Harvestable(t, resp))
                  /\ \A n \in new :
                         /\ branches'[n].thread_id = t
                         /\ branches'[n].parent_branch = None
                         /\ branches'[n].category = "concept"
                         /\ branches'[n].children = <<>>
                         /\ PlaceInReply(t, resp, branches'[n].source,
                                         branches'[n].heading) > 0
                  /\ \A m, n \in new :
                         m < n
                         => LET rm == SectionRank(branches'[m].source)
                                rn == SectionRank(branches'[n].source)
                            IN  \/ rm < rn
                                \/ /\ rm = rn
                                   /\ PlaceInReply(t, resp, branches'[m].source,
                                                   branches'[m].heading)
                                      < PlaceInReply(t, resp, branches'[n].source,
                                                     branches'[n].heading)]_vars

\* C21 witness: thread_1 was harvested from a reply that lists
\* delightfulSubversion first; the seeds got b1 and b2, the alignment b3 and
\* the subversion b4.
C21_SeedsFirst ==
    /\ active_thread = FixedThread(1)
    /\ DOMAIN branches = 1..4
    /\ branches[1].heading = <<"e1">>
    /\ branches[2].heading = <<"e2">>
    /\ branches[3].source = <<"habitHeuristicAlignment">>
    /\ branches[4].source = <<"delightfulSubversion">>
    /\ mindmap[FixedThread(1)] = <<BNode(1), BNode(2), BNode(3), BNode(4)>>

(***************************************************************************)
(* Properties of authoring                                                 *)
(***************************************************************************)
\* the reply to an authored idea is a concept record the code can read
ReadAsRecord(resp) ==
    /\ resp.shape \in {"pure", "fenced"}
    /\ resp.kind = "object"
    /\ resp.items[1] # ItemIllTyped

\* C22: process_user_idea on a registered target creates exactly one branch
\* whether or not the reply is read as a concept record: its parent is the
\* target, its thread is the target's, it is marked user_created and its id
\* is appended to the target's children; when the reply is not read, its
\* heading is "User Idea" and its explanation is the user's text.
C22_AuthorCreatesOne ==
    [][\A resp \in ShapedAuthorReplies :
           cli = "idea_input" /\ ProcessUserIdea(resp)
           => LET B == idea_input_context
                  id == branch_counter + 1
              IN  /\ B \in DOMAIN branches
                  /\ (DOMAIN branches') \ (DOMAIN branches) = {id}
                  /\ DOMAIN branches \subseteq DOMAIN branches'
                  /\ branch_counter' = id
                  /\ branches'[id].parent_branch = B
                  /\ branches'[id].thread_id = branches[B].thread_id
                  /\ Has(branches'[id], "user_created") /\ branches'[id].user_created
                  /\ branches'[id].category = "concept"
                  /\ branches'[B].children = Append(branches[B].children, id)
                  /\ \A n \in DOMAIN branches \ {B} : branches'[n] = branches[n]
                  /\ IF ReadAsRecord(resp)
                     THEN /\ branches'[id].heading = resp.items[1].heading
                          /\ branches'[id].explanation = resp.items[1].explanation
                     ELSE /\ branches'[id].heading = <<"User Idea">>
                          /\ branches'[id].explanation = UserIdea
                          /\ branches'[id].productDirection = <<>>]_vars

\* C22 witness: one idea was structured and one was not; both are children
\* of b1, marked user_created.
C22_BothKindsAuthored ==
    /\ feedback = "Added your idea, but couldn't structure it in the standard format."
    /\ DOMAIN branches = 1..3
    /\ branches[1].children = <<2, 3>>
    /\ branches[2].user_created /\ branches[2].heading = <<"H">>
    /\ branches[3].user_created /\ branches[3].heading = <<"User Idea">>
    /\ branches[3].explanation = UserIdea

(***************************************************************************)
(* Properties of the thread registry                                       *)
(***************************************************************************)
\* the ids of the methodology threads in a registry
FixedIn(ths) == {t \in ThreadIds(ths) : ~IsCombined(t)}
ThreeLenses == {FixedThread(1), FixedThread(2), FixedThread(3)}

\* C23: the three methodology threads are created once, by the first
\* present_exploration_options after the problem statement is confirmed,
\* each with no branch, a transcript of the system message alone and its
\* node below the mindmap root; a later present_exploration_options leaves
\* the threads and the mindmap as they are, and no other step adds or drops
\* a methodology thread.
C23_LensesCreatedOnce ==
    [][/\ FixedIn(threads) \in {{}, ThreeLenses}
       /\ FixedIn(threads) \subseteq FixedIn(threads')
       /\ FixedIn(threads') # FixedIn(threads)
          => /\ cli = "present"
             /\ threads = <<>>
             /\ final_problem_statement # ""
             /\ threads' = [i \in 1..3 |->
                               [id |-> FixedThread(i), messages |-> 1, branches |-> {}]]
             /\ DOMAIN mindmap' = {Root} \cup ThreeLenses
             /\ mindmap'[Root] = <<FixedThread(1), FixedThread(2), FixedThread(3)>>
             /\ \A t \in ThreeLenses : mindmap'[t] = <<>>
             /\ UNCHANGED <<branches, branch_counter, active>>
       /\ threads # <<>> /\ (PresentExplorationOptions \/ PresentAgain)
          => UNCHANGED <<threads, mindmap, branches, branch_counter, active, pending>>]_vars

\* C23 witness: present_exploration_options has run again after a harvest
\* and a combination; the three lenses, the combined thread and the
\* branches are all there.
C23_PresentedAgain ==
    /\ current_step = "await_thread_choice"
    /\ cli = "top"
    /\ FixedIn(threads) = ThreeLenses
    /\ Len(threads) > 3
    /\ GetThread(threads, FixedThread(1)).branches # {}
    /\ mindmap[FixedThread(1)] # <<>>

(***************************************************************************)
(* Properties of the commands                                              *)
(***************************************************************************)
\* the threads as get_thread_options_display lists them
Listed == get_thread_options_display(threads)

\* C24: the listing shows the methodology threads first, in their fixed
\* order at 1..3, then the combined threads in the order they were made at
\* 4, 5, ...; an integer n selects exactly the thread listed at n and makes
\* it the active thread, and an integer that lists nothing selects nothing
\* and leaves threads, branches and mindmap alone.
C24_SelectByIndex ==
    [][/\ \A k \in DOMAIN Listed :
              /\ Listed[k].index = k
              /\ k <= 3 => Listed[k].id = FixedThread(k)
              /\ k > 3 => /\ IsCombined(Listed[k].id)
                          /\ \A j \in 4..(k - 1) : Listed[j].id[2] < Listed[k].id[2]
       /\ {Listed[k].id : k \in DOMAIN Listed} = ThreadIds(threads)
       /\ \A n \in EnteredIndices :
              cli = "top" /\ ProcessThreadChoiceMulti([kind |-> "index", n |-> n])
              => IF n \in DOMAIN Listed
                 THEN /\ active_thread' = Listed[n].id
                      /\ active_branch' = None
                      /\ ThreadIds(threads') = ThreadIds(threads)
                 ELSE /\ UNCHANGED <<threads, branches, mindmap, branch_counter,
                                     active, pending, current_step>>
                      /\ feedback' = "Invalid thread number."
                      /\ cli' = "display"]_vars

\* C24 witness: with two combined threads listed at 4 and 5, the one at 4
\* has been selected.
C24_FourthSelected ==
    /\ Len(threads) = 5
    /\ Len(Listed) = 5
    /\ active_thread = Listed[4].id
    /\ active_branch = None
    /\ cli = "top"
    /\ feedback = ""

(***************************************************************************)
(* Properties of combination                                               *)
(***************************************************************************)
\* the replies to combine that parse to product records
RecordCombines ==
    {resp \in ShapedCombineReplies :
        /\ ParsesStripped(resp.shape)
        /\ resp.kind \in {"array", "object"}
        /\ \A i \in DOMAIN resp.items : IsRecord(resp.items[i])}

\* the top-level branches of a thread
TopLevelIn(bs, t) ==
    {n \in DOMAIN bs : bs[n].thread_id = t /\ bs[n].parent_branch = None}

\* C25: a combine whose reply parses to k product records, a bare object
\* counting as one, creates exactly k combined threads, one per record in
\* the order of the records, each holding one top-level product branch; the
\* first of them becomes the active thread and the active branch is
\* cleared; no other step puts a top-level branch into a combined thread.
C25_OneThreadPerProduct ==
    [][/\ \A resp \in RecordCombines : \A ids \in ReplyCombineArgs :
              cli = "top" /\ ValidCombine(ids) /\ ProcessCombineRequest(ids, resp)
              => LET k == IF resp.kind = "object" THEN 1 ELSE Len(resp.items)
                     c == branch_counter
                     old == Len(threads)
                 IN  /\ Len(threads') = old + k
                     /\ SubSeq(threads', 1, old) = threads
                     /\ (DOMAIN branches') \ (DOMAIN branches) = (c + 1)..(c + k)
                     /\ \A i \in 1..k :
                            LET th == threads'[old + i]
                                b == branches'[c + i]
                            IN  /\ th.id = CombinedThread(c + i)
                                /\ th.id \notin ThreadIds(threads)
                                /\ th.branches = {c + i}
                                /\ TopLevelIn(branches', th.id) = {c + i}
                                /\ b.category = "product"
                                /\ b.heading = resp.items[i].heading
                                /\ b.source_concepts =
                                       standardize_product_branch_data(
                                           resp.items[i]).sourceConcepts
                                /\ mindmap'[th.id] = <<BNode(c + i)>>
                     /\ active_thread' = CombinedThread(c + 1)
                     /\ active_branch' = None
       /\ \A n \in (DOMAIN branches') \ (DOMAIN branches) :
              IsCombined(branches'[n].thread_id) /\ branches'[n].parent_branch = None
              => /\ branches'[n].thread_id \notin ThreadIds(threads)
                 /\ cli = "top" /\ cli' = "display" /\ llm_called'
       /\ \A i \in DOMAIN threads :
              IsCombined(threads[i].id)
              => Cardinality(TopLevelIn(branches, threads[i].id)) <= 1]_vars

\* C25 witness: one combine of b1 and b2 was answered by two records; the
\* threads of b3 and b4 were added in that order and the first is active.
C25_TwoThreadsMade ==
    /\ feedback = "Successfully combined concepts."
    /\ Len(threads) = 5
    /\ threads[4].id = CombinedThread(3) /\ threads[4].branches = {3}
    /\ threads[5].id = CombinedThread(4) /\ threads[5].branches = {4}
    /\ branches[3].source_concepts = <<1>>
    /\ branches[4].source_concepts # <<1>>
    /\ active_thread = CombinedThread(3)
    /\ active_branch = None

(***************************************************************************)
(* Properties of the active branch                                         *)
(***************************************************************************)
\* C26: the active branch is None or a registered branch after every step;
\* a confirmed delete that takes it out, and a re-selection that wipes its
\* thread, clear it.
C26_ActiveBranchRegistered ==
    [][/\ active_branch' = None \/ active_branch' \in DOMAIN branches'
       /\ active_branch # None /\ active_branch \notin DOMAIN branches'
          => active_branch' = None]_vars

\* C26 witness: b2, a child of b1, was the active branch when b1 was
\* deleted; the active branch is cleared.
C26_ClearedByAncestor ==
    /\ removed = {1, 2}
    /\ active_branch = None
    /\ active_thread = FixedThread(1)
    /\ feedback = "Successfully deleted branch and all its sub-branches."
    /\ llm_called = FALSE
    /\ branch_counter = 2

C28_StopEndsSession ==
    [][/\ cli = "top" /\ EndSession
          => /\ current_step' = "session_ended"
             /\ UNCHANGED <<branches, threads, mindmap, branch_counter>>
       /\ cli = "top" /\ ProcessThreadChoiceMulti(StopChoice)
          => /\ current_step' = "end_session"
             /\ UNCHANGED <<branches, threads, mindmap, branch_counter>>
       /\ current_step = "end_session"
          => /\ current_step' = "session_ended"
             /\ UNCHANGED <<branches, threads, mindmap, branch_counter>>
       /\ current_step # "session_ended"]_vars

\* C28 witness: the session was stopped with three branches registered and
\* b1 the active branch.
C28_StoppedWithBranches ==
    /\ current_step = "session_ended"
    /\ DOMAIN branches = 1..3
    /\ active_branch = 1
    /\ cli = "done"

(***************************************************************************)
(* Properties of the command texts                                         *)
(***************************************************************************)
\* the text, in lower case and without the blanks around it, has one of the
\* forms of the command surface
Recognized(text) ==
    LET command == strip(lower(text))
    IN  \/ IsInt(command)
        \/ BranchMatch(command) # NoMatch
        \/ startswith(command, AddIdeaWord)
        \/ startswith(command, DeleteWord)
        \/ startswith(command, CombineWord)
        \/ command = StopWord

\* C29: a text that has none of the recognized forms, the empty text
\* included, gives a feedback message and leaves the registry, the threads
\* with their transcripts, the mindmap, the active thread and the active
\* branch as they were, and starts no harvest.
C29_UnrecognizedOnlyFeedback ==
    [][\A text \in EnteredTexts :
           /\ cli = "top"
           /\ ~Recognized(text)
           /\ EnterCommand(text)
           => /\ feedback' # ""
              /\ UNCHANGED <<branches, threads, mindmap, branch_counter>>
              /\ UNCHANGED <<active_thread, active_branch>>
              /\ current_step' # "thread_exploration"
              /\ cli' # "explore"]_vars

\* the two texts differ only in the case of their letters and in the blanks
\* around them
SameCommand(text, variant) == strip(lower(text)) = strip(lower(variant))

\* C30: two texts that differ only in case and in the blanks around them
\* take the session from the same state to the same state.
C30_VariantsAgree ==
    [][\A text \in EnteredTexts, variant \in EnteredTexts :
           /\ cli = "top"
           /\ SameCommand(text, variant)
           /\ Recognized(text)
           /\ EnterCommand(text)
           => EnterCommand(variant)]_vars

(***************************************************************************)
(* Properties of the problem statement                                     *)
(***************************************************************************)
\* the session is in its statement phase
StatementPhase == cli \in {"generate", "choose_statement"}

\* C31: after the statement has been chosen the session never returns to the
\* statement phase and no step changes final_problem_statement; the root of
\* the mindmap takes the chosen statement as its name and keeps it; r1 and r2
\* leave final_problem_statement unset and go back to generating.
C31_StatementFixed ==
    [][/\ ~StatementPhase
          => /\ ~StatementPhase'
             /\ final_problem_statement # ""
             /\ UNCHANGED final_problem_statement
             /\ mindmap_name # NoMindmap => UNCHANGED mindmap_name
             /\ mindmap_name' # NoMindmap => mindmap_name' = final_problem_statement
       /\ StatementPhase => final_problem_statement = "" /\ mindmap_name = NoMindmap
       /\ \A choice \in {"r1", "r2"} :
              cli = "choose_statement" /\ ProcessUserChoice(choice)
              => /\ final_problem_statement' = ""
                 /\ StatementPhase'
                 /\ current_step' \in {"generate_problem_statement",
                                       "generate_problem_statement_2"}
       /\ \A choice \in StatementChoices \ {"r1", "r2"} :
              cli = "choose_statement" /\ ProcessUserChoice(choice)
              => /\ final_problem_statement' # ""
                 /\ current_step' = "present_exploration_options"]_vars

\* C31 witness: statement 2 was chosen, the mindmap carries it as the name of
\* its root, and a thread has been harvested and the options presented again.
C31_SecondStatementKept ==
    /\ final_problem_statement = "statement 2"
    /\ mindmap_name = "statement 2"
    /\ branches # EmptyDict
    /\ current_step = "await_thread_choice"

(***************************************************************************)
(* Properties of the descendant count                                      *)
(***************************************************************************)
\* n is reached from m by following parent_branch
RECURSIVE IsAncestor(_, _, _)
IsAncestor(bs, n, m) ==
    LET p == bs[m].parent_branch
    IN  /\ p # None
        /\ \/ p = n
           \/ p \in DOMAIN bs /\ IsAncestor(bs, n, p)

\* the registered branches that have n among their ancestors
ProperDescendants(bs, n) == {m \in DOMAIN bs : IsAncestor(bs, n, m)}

\* C32: a delete request reports the number of registered proper
\* descendants of its target; an affirmative confirmation takes exactly the
\* target and those descendants out of the registry, that count plus one,
\* and leaves every other branch as it was, the target's parent losing the
\* target from its children list.
C32_CountMatchesRemoval ==
    [][/\ \A n \in DOMAIN branches :
              cli = "top" /\ ProcessDeleteRequest(n)
              => deletion_context'.children_count
                     = Cardinality(ProperDescendants(branches, n))
       /\ \A c \in Affirmative :
              /\ cli = "confirm_deletion"
              /\ awaiting_deletion_confirmation
              /\ ProcessDeletionConfirmation(c)
              => LET X == deletion_context.branch_id
                     subtree == {X} \cup ProperDescendants(branches, X)
                     kept == (DOMAIN branches) \ subtree
                 IN  /\ DOMAIN branches' = kept
                     /\ Cardinality(DOMAIN branches)
                            - Cardinality(DOMAIN branches')
                        = deletion_context.children_count + 1
                     /\ \A y \in kept :
                            branches'[y] =
                                (IF y = branches[X].parent_branch
                                 THEN [branches[y] EXCEPT
                                          !.children = SelectSeqNe(@, X)]
                                 ELSE branches[y])]_vars

\* C32 witness: b2, which has one child, was deleted under b1; b1 stays
\* with an empty children list.
C32_MiddleRemoved ==
    /\ removed = {2, 3}
    /\ DOMAIN branches = {1}
    /\ branches[1].children = <<>>
    /\ branches[1].expanded
    /\ feedback = "Successfully deleted branch and all its sub-branches."

(***************************************************************************)
(* Properties of selecting a thread again                                  *)
(***************************************************************************)
\* the thread is the active one and its transcript shows it was explored
Reselected(t) == t = active_thread /\ GetThread(threads, t).messages > 1

\* the records of the other threads, their branch maps and their mindmap
\* nodes are as before the step
OtherThreadsKept(t) ==
    \A u \in ThreadIds(threads) \ {t} :
        /\ GetThread(threads', u) = GetThread(threads, u)
        /\ MMSubtree(mindmap', u) = MMSubtree(mindmap, u)
        /\ \A node \in MMSubtree(mindmap, u) : mindmap'[node] = mindmap[node]

\* C33: selecting the active, explored methodology thread takes every branch
\* of the thread out of the registry, empties the thread's branch map and its
\* mindmap node, and goes on to harvest; the branches, thread records and
\* mindmap nodes of the other threads stay as they were.  Selecting a
\* combined thread again, or any thread for the first time, removes nothing.
C33_ReselectionWipesOneThread ==
    [][\A choice \in IndexChoices :
           /\ cli = "top"
           /\ OptionsAt(threads, choice.n) # <<>>
           /\ ProcessThreadChoiceMulti(choice)
           => LET t == OptionsAt(threads, choice.n)[1].id
                  mine == {n \in DOMAIN branches : branches[n].thread_id = t}
              IN  IF Reselected(t) /\ ~IsCombined(t)
                  THEN /\ DOMAIN branches' = (DOMAIN branches) \ mine
                       /\ \A y \in DOMAIN branches' : branches'[y] = branches[y]
                       /\ GetThread(threads', t).branches = {}
                       /\ mindmap'[t] = <<>>
                       /\ AbsentFromMindmap(mindmap', mine)
                       /\ OtherThreadsKept(t)
                       /\ current_step' = "thread_exploration"
                       /\ cli' = "explore"
                  ELSE /\ UNCHANGED <<branches, mindmap>>
                       /\ \A u \in ThreadIds(threads) :
                              GetThread(threads', u).branches
                                  = GetThread(threads, u).branches]_vars

\* C33 witness: the first lens was selected again while it held b1 and b2;
\* both are gone and the product b3 of a combined thread is still registered
\* with its mindmap node.
C33_WipedBesideCombined ==
    /\ cli = "explore"
    /\ active_thread = FixedThread(1)
    /\ issued = <<1, 2, 3>>
    /\ DOMAIN branches = {3}
    /\ IsCombined(branches[3].thread_id)
    /\ BNode(3) \in DOMAIN mindmap
    /\ mindmap[FixedThread(1)] = <<>>

(***************************************************************************)
(* Properties of the pending inputs                                        *)
(***************************************************************************)
\* the pending inputs that are set
PendingInputs ==
    {flag \in {"concept", "idea", "deletion"} :
        \/ flag = "concept" /\ awaiting_concept_input
        \/ flag = "idea" /\ awaiting_idea_input
        \/ flag = "deletion" /\ awaiting_deletion_confirmation}

\* C34: when run_cli_workflow is about to read a command none of the three
\* pending inputs is set, and never are two of them set together.
C34_OneCommandAtATime ==
    /\ cli = "top" => PendingInputs = {}
    /\ Cardinality(PendingInputs) <= 1

\* C35: selecting a methodology thread that was explored before and is not
\* the active thread removes nothing and goes on to harvest; the harvest
\* leaves every branch the thread held in the registry and in the thread's
\* map as it was, and the branches it makes are new top-level branches of the
\* thread beside them.
C35_RevisitAddsBeside ==
    [][/\ \A choice \in IndexChoices :
              /\ cli = "top"
              /\ OptionsAt(threads, choice.n) # <<>>
              /\ ProcessThreadChoiceMulti(choice)
              => LET t == OptionsAt(threads, choice.n)[1].id
                 IN  /\ ~IsCombined(t)
                     /\ t # active_thread
                     /\ GetThread(threads, t).messages > 1
                     => /\ UNCHANGED <<branches, mindmap>>
                        /\ GetThread(threads', t).branches
                               = GetThread(threads, t).branches
                        /\ active_thread' = t
                        /\ current_step' = "thread_exploration"
                        /\ cli' = "explore"
       /\ cli = "explore" /\ ThreadExploration(HarvestOfShape("pure"))
          => LET t == active_thread
                 made == (DOMAIN branches') \ (DOMAIN branches)
             IN  /\ \A n \in DOMAIN branches : /\ n \in DOMAIN branches'
                                               /\ branches'[n] = branches[n]
                 /\ GetThread(threads', t).branches
                        = GetThread(threads, t).branches \cup made
                 /\ \A n \in made : /\ branches'[n].thread_id = t
                                    /\ branches'[n].parent_branch = None]_vars

\* C35 witness: the first lens was harvested, b1 was combined with itself
\* into b2 on a thread of its own, and the first lens was harvested again;
\* b1 of the first harvest and b3 of the second stand side by side.
C35_HarvestedTwice ==
    /\ cli = "display"
    /\ active_thread = FixedThread(1)
    /\ DOMAIN branches = {1, 2, 3}
    /\ branches[1].thread_id = FixedThread(1)
    /\ IsCombined(branches[2].thread_id)
    /\ branches[3].thread_id = FixedThread(1)
    /\ GetThread(threads, FixedThread(1)).branches = {1, 3}
    /\ mindmap[FixedThread(1)] = <<BNode(1), BNode(3)>>

\* C36: an active branch is registered and active_thread is its thread;
\* selecting a listed thread and a combine that creates threads leave no
\* active branch; selecting a registered branch makes it the active branch
\* and its thread the active thread.
C36_ActiveThreadOfBranch ==
    /\ [](active_branch # None
            => /\ active_branch \in DOMAIN branches
               /\ active_thread = branches[active_branch].thread_id)
    /\ [][/\ \A choice \in IndexChoices :
                /\ cli = "top"
                /\ OptionsAt(threads, choice.n) # <<>>
                /\ ProcessThreadChoiceMulti(choice)
                => /\ active_branch' = None
                   /\ active_thread' = OptionsAt(threads, choice.n)[1].id
          /\ \A ids \in CallCombineArgs :
                /\ cli = "top"
                /\ ProcessCombineRequest(ids, CombineOfShape("pure"))
                /\ ThreadIds(threads') # ThreadIds(threads)
                => /\ active_branch' = None
                   /\ active_thread' \in ThreadIds(threads') \ ThreadIds(threads)
          /\ \A n \in EnteredBranchNumbers :
                /\ cli = "top"
                /\ n \in DOMAIN branches
                /\ ProcessBranchSelection(n)
                => /\ active_branch' = n
                   /\ active_thread' = branches[n].thread_id]_vars

\* C36 witness: b1 of the first lens was combined with itself into b2, which
\* made another thread the active one; b1 was selected after that and the
\* first lens is the active thread again.
C36_SelectedAcrossThreads ==
    /\ active_branch = 1
    /\ DOMAIN branches = {1, 2}
    /\ branches[1].thread_id = FixedThread(1)
    /\ IsCombined(branches[2].thread_id)
    /\ active_thread = FixedThread(1)
    /\ cli = "concept_input"

\* the branch nodes the mindmap holds, as a node of their own or as a child
BranchNodes(mm) ==
    {node \in (DOMAIN mm) \cup UNION {Range(mm[n]) : n \in DOMAIN mm} :
        node[1] = "b"}

\* the nodes that list the node among their children
NodeParents(mm, node) == {n \in DOMAIN mm : node \in Range(mm[n])}

\* C37: every branch node of the mindmap carries the id of a registered
\* branch, lies under the node of that branch's thread, and is listed by
\* exactly one node: the node of the branch's parent, or the thread node when
\* the branch has no parent.
C37_NoOrphanNode ==
    \A node \in BranchNodes(mindmap) :
        /\ node[2] \in DOMAIN branches
        /\ LET b == branches[node[2]]
           IN  /\ HasThreadNode(mindmap, b.thread_id)
               /\ node \in MMSubtree(mindmap, b.thread_id)
               /\ NodeParents(mindmap, node)
                      = {IF b.parent_branch = None THEN b.thread_id
                         ELSE BNode(b.parent_branch)}

\* C37 witness: b1 had the sub-branches b2 and b3 in the mindmap; b3 has
\* just been deleted and b2 is still nested under b1.
C37_NestedAfterDelete ==
    /\ removed = {3}
    /\ mindmap[FixedThread(1)] = <<BNode(1)>>
    /\ mindmap[BNode(1)] = <<BNode(2)>>
    /\ branches[2].parent_branch = 1

\* the products that record the branch among their source concepts
ProductsOf(bs, id) ==
    {p \in DOMAIN bs : /\ Has(bs[p], "source_concepts")
                       /\ id \in Range(bs[p].source_concepts)}

\* C38: a confirmed deletion of a branch leaves every other product that
\* records the branch as a source concept as it was: its branch record, the
\* record of its combined thread, the thread's node under the root and the
\* product's node under the thread.
C38_ProductsOutliveSources ==
    [][\A c \in {"yes"} :
          /\ cli = "confirm_deletion"
          /\ deletion_context.branch_id \in DOMAIN branches
          /\ ProcessDeletionConfirmation(c)
          => LET x == deletion_context.branch_id
             IN  /\ x \notin DOMAIN branches'
                 /\ \A p \in ProductsOf(branches, x) \ {x} :
                       /\ p \in DOMAIN branches'
                       /\ branches'[p] = branches[p]
                       /\ LET t == branches[p].thread_id
                          IN  /\ t \in ThreadIds(threads')
                              /\ GetThread(threads', t) = GetThread(threads, t)
                              /\ HasThreadNode(mindmap', t)
                              /\ mindmap'[t] = mindmap[t]
                              /\ BNode(p) \in Range(mindmap'[t])
                              /\ mindmap'[BNode(p)] = mindmap[BNode(p)]]_vars

\* C38 witness: b1 was combined with itself and the reply carried no JSON,
\* so the fallback product b2 names b1 as its source; b1 has just been
\* deleted and b2 stands on its combined thread.
C38_SourceDeleted ==
    /\ removed = {1}
    /\ DOMAIN branches = {2}
    /\ ProductsOf(branches, 1) = {2}
    /\ branches[2].source_concepts = <<1, 1>>
    /\ IsCombined(branches[2].thread_id)
    /\ GetThread(threads, branches[2].thread_id).branches = {2}
    /\ mindmap[branches[2].thread_id] = <<BNode(2)>>

\* the ids the thread listing offers for selection
ListedThreads(ths) ==
    {get_thread_options_display(ths)[k].id :
        k \in DOMAIN get_thread_options_display(ths)}

\* C39: active_thread is None or the id of a registered thread; no step
\* takes a thread out of the registry or its node out of the mindmap; and a
\* confirmed deletion of the product of a combined thread leaves the thread
\* registered with an empty branch map, with its node under the root and in
\* the listing of selectable threads.
C39_ThreadsOnlyGrow ==
    /\ [](active_thread = NoThread \/ active_thread \in ThreadIds(threads))
    /\ [][/\ ThreadIds(threads) \subseteq ThreadIds(threads')
          /\ \A t \in ThreadIds(threads) :
                HasThreadNode(mindmap, t) => HasThreadNode(mindmap', t)
          /\ \A c \in {"yes"} :
                /\ cli = "confirm_deletion"
                /\ deletion_context.branch_id \in DOMAIN branches
                /\ IsCombined(branches[deletion_context.branch_id].thread_id)
                /\ branches[deletion_context.branch_id].category = "product"
                /\ ProcessDeletionConfirmation(c)
                => LET t == branches[deletion_context.branch_id].thread_id
                   IN  /\ t \in ThreadIds(threads')
                       /\ GetThread(threads', t).branches = {}
                       /\ HasThreadNode(mindmap', t)
                       /\ mindmap'[t] = <<>>
                       /\ t \in ListedThreads(threads')]_vars

\* C39 witness: the product b2 of a combined thread has just been deleted;
\* the thread is the active thread, holds no branch and is listed fourth.
C39_EmptyCombinedThread ==
    /\ removed = {2}
    /\ IsCombined(active_thread)
    /\ GetThread(threads, active_thread).branches = {}
    /\ mindmap[active_thread] = <<>>
    /\ OptionsAt(threads, 4) # <<>>
    /\ OptionsAt(threads, 4)[1].id = active_thread

\* C40: with the threads scheduled fairly, every worker ends and scrape_all
\* returns.
C40_ScrapeAllReturns ==
    <>(/\ scraper.main = "returned"
       /\ \A i \in Workers : scraper.pc[i] \in {"not started", "done"})

====
